---- MODULE Spec2Model ----
(***************************************************************************)
(* Model of the query-plan and WHERE-clause compilation core of limbo:     *)
(*   core/translate/where_clause.rs  (splitting, placement, code emission) *)
(*   core/translate/plan.rs          (operator tree, column counts, masks) *)
(***************************************************************************)
EXTENDS Integers, Sequences, FiniteSets, Bags, TLC

VARIABLES
    phase,      \* position of the driver: which operation runs next
    select,     \* the Select being compiled (where_clause, loops, src_tables)
    program,    \* the ProgramBuilder
    result,     \* outcome of the last operation: "none", "Ok", "Err", "Panic"
    ret,        \* value returned by the last operation (label, mask, ...)
    wc,         \* the ProcessedWhereClause
    vm,         \* the virtual machine running the emitted code
    plan        \* inputs and outputs of the plan.rs functions

vars == <<phase, select, program, result, ret, wc, vm, plan>>

(***************************************************************************)
(* Bounds of the model.                                                    *)
(***************************************************************************)
\* largest number of AND / OR connectives in a generated condition
MaxOps == 2
\* largest number of AND / OR connectives in a generated WHERE clause to split
MaxSplitOps == 2
\* largest number of entries of a Projection's expression list
MaxProj == 2
\* largest number of single-source operators stacked over a generated source
MaxWrap == 1
\* longest rhs list of a generated IN expression
MaxList == 3

(***************************************************************************)
(* ast::Expr.  Every expression is a record of one shape:                  *)
(*   k    the variant (Binary, Id, Qualified, Literal, InList, Like, ...)  *)
(*   op   the operator / literal kind / "Some" or "None" of an option      *)
(*   tbl, name   the qualifier and the identifier or literal text          *)
(*   not  the NOT flag of IN and LIKE                                      *)
(*   args the sub-expressions, left to right                               *)
(***************************************************************************)
Expr(k, op, tbl, name, not, args) ==
    [k |-> k, op |-> op, tbl |-> tbl, name |-> name, not |-> not, args |-> args]

Binary(l, op, r) == Expr("Binary", op, "", "", FALSE, <<l, r>>)
Id(n) == Expr("Id", "", "", n, FALSE, <<>>)
Qualified(t, n) == Expr("Qualified", "", t, n, FALSE, <<>>)
Numeric(text) == Expr("Literal", "Numeric", "", text, FALSE, <<>>)
String(text) == Expr("Literal", "String", "", text, FALSE, <<>>)
Null == Expr("Literal", "Null", "", "", FALSE, <<>>)
\* InList { lhs, not, rhs: Some(list) } and InList { lhs, not, rhs: None }
InList(lhs, not, rhs) == Expr("InList", "Some", "", "", not, <<lhs>> \o rhs)
InListNone(lhs, not) == Expr("InList", "None", "", "", not, <<lhs>>)
Like(lhs, not, op, rhs) == Expr("Like", op, "", "", not, <<lhs, rhs>>)
Unary(op, e) == Expr("Unary", op, "", "", FALSE, <<e>>)
\* FunctionCall { name, args: Some(list) } and FunctionCall { name, args: None }
FunctionCall(n, args) == Expr("FunctionCall", "Some", "", n, FALSE, args)
FunctionCallNone(n) == Expr("FunctionCall", "None", "", n, FALSE, <<>>)
Between(lhs, start, end) == Expr("Between", "", "", "", FALSE, <<lhs, start, end>>)

NoExpr == Expr("None", "", "", "", FALSE, <<>>)

IsAnd(e) == e.k = "Binary" /\ e.op = "And"
IsOr(e) == e.k = "Binary" /\ e.op = "Or"

\* The trees with exactly n AND / OR connectives over the given leaves.
RECURSIVE Trees(_, _)
Trees(leaves, n) ==
    IF n = 0 THEN leaves
    ELSE UNION { { Binary(l, op, r) : l \in Trees(leaves, i),
                                       r \in Trees(leaves, n - 1 - i),
                                       op \in {"And", "Or"} } : i \in 0..(n - 1) }

(***************************************************************************)
(* Values held by registers and columns.                                   *)
(***************************************************************************)
IntVal(i) == [t |-> "int", i |-> i, s |-> ""]
StrVal(s) == [t |-> "str", i |-> 0, s |-> s]
NullVal == [t |-> "null", i |-> 0, s |-> ""]

\* str::parse::<i64> on the literal texts the model uses
ParseI64(text) ==
    CASE text = "0" -> [ok |-> TRUE, value |-> 0]
      [] text = "1" -> [ok |-> TRUE, value |-> 1]
      [] text = "2" -> [ok |-> TRUE, value |-> 2]
      [] text = "3" -> [ok |-> TRUE, value |-> 3]
      [] text = "10" -> [ok |-> TRUE, value |-> 10]
      [] text = "20" -> [ok |-> TRUE, value |-> 20]
      [] OTHER -> [ok |-> FALSE, value |-> 0]

(***************************************************************************)
(* ProgramBuilder (vdbe/builder.rs): registers, labels, instructions.      *)
(* Offsets are 0-based: the instruction at offset k is insns[k + 1].       *)
(* A label is a positive number; labels[l] is its offset or Unresolved.    *)
(***************************************************************************)
Unresolved == -1

Insn(op, lhs, rhs, reg, dest, target_pc, value, name) ==
    [op |-> op, lhs |-> lhs, rhs |-> rhs, reg |-> reg, dest |-> dest,
     target_pc |-> target_pc, value |-> value, name |-> name]

NewProgram ==
    [insns |-> <<>>, labels |-> <<>>, resolutions |-> <<>>,
     label_deps |-> <<>>, next_free_register |-> 1, constant_insns |-> {}]

offset(p) == Len(p.insns)

\* the register that alloc_register returns, and the builder after it
next_register(p) == p.next_free_register
alloc_register(p) == [p EXCEPT !.next_free_register = @ + 1]

\* the label that allocate_label returns, and the builder after it
next_label(p) == Len(p.labels) + 1
allocate_label(p) ==
    [p EXCEPT !.labels = Append(@, Unresolved), !.resolutions = Append(@, 0)]

resolve_label(p, l, to_offset) ==
    [p EXCEPT !.labels[l] = to_offset, !.resolutions[l] = @ + 1]

emit_insn(p, insn) == [p EXCEPT !.insns = Append(@, insn)]

emit_insn_with_label_dependency(p, insn, l) ==
    [p EXCEPT !.insns = Append(@, insn),
              !.label_deps = Append(@, <<Len(p.insns), l>>)]

\* marks the instruction emitted last (the one at offset() - 1)
mark_last_insn_constant(p) ==
    [p EXCEPT !.constant_insns = @ \cup {offset(p) - 1}]

(***************************************************************************)
(* Outcomes of a compilation step: the builder, and Ok / Err / Panic.      *)
(* Err is a returned LimboError; Panic is an unwinding todo!() or assert.  *)
(***************************************************************************)
Ok(p) == [p |-> p, res |-> "Ok"]
Err(p) == [p |-> p, res |-> "Err"]
Panic(p) == [p |-> p, res |-> "Panic"]

(***************************************************************************)
(* The catalog and the Select (translate/select.rs): tables with their     *)
(* ordered columns, the FROM entries with their join info, the open loops. *)
(***************************************************************************)
TableColumns(table) ==
    CASE table = "t1" -> <<"a", "c", "s">>
      [] table = "t2" -> <<"b", "c">>
      [] table = "t3" -> <<"d">>
      [] OTHER -> <<>>

Range(f) == { f[i] : i \in DOMAIN f }

\* BTreeTable::get_column
HasColumn(table, column) == column \in Range(TableColumns(table))

\* one entry of select.src_tables; join is "none", "inner" or "outer"
SrcTable(identifier, table, join, constraint) ==
    [identifier |-> identifier, table |-> table, join |-> join,
     constraint |-> constraint]

\* one entry of select.loops
LoopInfo(identifier, open_cursor, next_row_label) ==
    [identifier |-> identifier, open_cursor |-> open_cursor,
     next_row_label |-> next_row_label]

NoSelect == [where_clause |-> NoExpr, src_tables |-> <<>>, loops |-> <<>>]

\* the loops opened for a FROM entry
LoopsOf(sel, identifier) ==
    { i \in DOMAIN sel.loops : sel.loops[i].identifier = identifier }

\* ProgramBuilder::resolve_cursor_id: the cursor opened for a FROM entry
CursorOf(sel, identifier) ==
    IF LoopsOf(sel, identifier) = {} THEN [ok |-> FALSE, cursor_id |-> 0]
    ELSE [ok |-> TRUE,
          cursor_id |-> sel.loops[CHOOSE j \in LoopsOf(sel, identifier) : TRUE]
                            .open_cursor]

\* the FROM entries whose table has the column
TablesWithColumn(sel, name) ==
    { i \in DOMAIN sel.src_tables : HasColumn(sel.src_tables[i].table, name) }

\* the cursor of the only FROM entry among `found`, or an error
OnlyEntry(sel, found) ==
    IF Cardinality(found) = 1
    THEN CursorOf(sel, sel.src_tables[CHOOSE f \in found : TRUE].identifier)
    ELSE [ok |-> FALSE, cursor_id |-> 0]

\* resolve_ident_table (translate/expr.rs): the cursor of the only table that
\* has the column
resolve_ident_table(name, sel) == OnlyEntry(sel, TablesWithColumn(sel, name))

\* resolve_ident_qualified (translate/expr.rs)
resolve_ident_qualified(tbl, name, sel) ==
    OnlyEntry(sel, { i \in TablesWithColumn(sel, name) :
                       sel.src_tables[i].identifier = tbl })

(***************************************************************************)
(* translate_expr (translate/expr.rs): evaluates an operand into a target  *)
(* register.  A literal or a resolvable column emits one instruction; an   *)
(* identifier that does not resolve is an error; other shapes are todo!(). *)
(***************************************************************************)
\* the Column instruction of a resolved identifier, or the resolver's error
ColumnOrError(p, r, e, target_register) ==
    IF r.ok
    THEN Ok(emit_insn(p, Insn("Column", 0, 0, r.cursor_id, target_register, 0,
                              NullVal, e.name)))
    ELSE Err(p)

translate_expr(p, sel, e, target_register) ==
    CASE e.k = "Literal" /\ e.op = "Numeric" ->
           IF ParseI64(e.name).ok
           THEN Ok(emit_insn(p, Insn("Integer", 0, 0, 0, target_register, 0,
                                     IntVal(ParseI64(e.name).value), "")))
           ELSE Ok(emit_insn(p, Insn("Real", 0, 0, 0, target_register, 0,
                                     StrVal(e.name), "")))
      [] e.k = "Literal" /\ e.op = "String" ->
           Ok(emit_insn(p, Insn("String8", 0, 0, 0, target_register, 0,
                                StrVal(e.name), "")))
      [] e.k = "Literal" /\ e.op = "Null" ->
           Ok(emit_insn(p, Insn("Null", 0, 0, 0, target_register, 0, NullVal, "")))
      [] e.k = "Id" ->
           ColumnOrError(p, resolve_ident_table(e.name, sel), e, target_register)
      [] e.k = "Qualified" ->
           ColumnOrError(p, resolve_ident_qualified(e.tbl, e.name, sel), e,
                         target_register)
      [] OTHER -> Panic(p)

(***************************************************************************)
(* translate_condition_expr and its branches (where_clause.rs).            *)
(***************************************************************************)
ConditionMetadata(jif, jt, jf) ==
    [jump_if_condition_is_true |-> jif, jump_target_when_true |-> jt,
     jump_target_when_false |-> jf]

ComparisonOps ==
    {"Greater", "GreaterEquals", "Less", "LessEquals", "Equals", "NotEquals"}

\* a negation table that pairs > with < and >= with <=
MirroredOpcode(op, jump_if_condition_is_true) ==
    CASE op = "Greater" -> IF jump_if_condition_is_true THEN "Gt" ELSE "Lt"
      [] op = "GreaterEquals" -> IF jump_if_condition_is_true THEN "Ge" ELSE "Le"
      [] op = "Less" -> IF jump_if_condition_is_true THEN "Lt" ELSE "Gt"
      [] op = "LessEquals" -> IF jump_if_condition_is_true THEN "Le" ELSE "Ge"
      [] op = "Equals" -> IF jump_if_condition_is_true THEN "Eq" ELSE "Ne"
      [] op = "NotEquals" -> IF jump_if_condition_is_true THEN "Ne" ELSE "Eq"

\* the opcode emitted for a comparison operator under each polarity
CompareOpcode(op, jump_if_condition_is_true) ==
    CASE op = "Greater" -> IF jump_if_condition_is_true THEN "Gt" ELSE "Le"
      [] op = "GreaterEquals" -> IF jump_if_condition_is_true THEN "Ge" ELSE "Lt"
      [] op = "Less" -> IF jump_if_condition_is_true THEN "Lt" ELSE "Ge"
      [] op = "LessEquals" -> IF jump_if_condition_is_true THEN "Le" ELSE "Gt"
      [] op = "Equals" -> IF jump_if_condition_is_true THEN "Eq" ELSE "Ne"
      [] op = "NotEquals" -> IF jump_if_condition_is_true THEN "Ne" ELSE "Eq"

\* the label a branch emitted under the metadata's polarity targets
PolarityTarget(cm) ==
    IF cm.jump_if_condition_is_true THEN cm.jump_target_when_true
    ELSE cm.jump_target_when_false

\* emit a compare-and-branch / If / IfNot / Goto with its label dependency
EmitBranch(p, op, lhs, rhs, reg, target) ==
    emit_insn_with_label_dependency(
        p, Insn(op, lhs, rhs, reg, 0, target, NullVal, ""), target)

\* the metadata AND hands to its left operand
AndLeftMetadata(cm) == [cm EXCEPT !.jump_if_condition_is_true = FALSE]

\* the left operand of OR compiled under the caller's polarity
OrLeftKeepsPolarity(cm, local_false) ==
    [cm EXCEPT !.jump_target_when_false = local_false]

\* the metadata OR hands to its left operand, given its fresh local label
OrLeftMetadata(cm, local_false) ==
    [cm EXCEPT !.jump_if_condition_is_true = TRUE,
               !.jump_target_when_false = local_false]

\* `let _ = f(..)`: a returned error is dropped, a panic unwinds
Discard(r) == IF r.res = "Panic" THEN r ELSE Ok(r.p)

\* the last instruction marked after every operand, literal or not
MarkAfterEveryOperand(p, operand) == mark_last_insn_constant(p)

\* lines 261-264, 266-269: a Literal operand has its last instruction marked
MarkIfLiteral(p, operand) ==
    IF operand.k = "Literal" THEN mark_last_insn_constant(p) ELSE p

\* lines 270-402: the compare-and-branch, after both operands
ComparisonBranch(r, expr, cm, lhs_reg, rhs_reg) ==
    IF r.res = "Panic" THEN r
    ELSE IF expr.op \in ComparisonOps
    THEN Ok(EmitBranch(MarkIfLiteral(r.p, expr.args[2]),
                       CompareOpcode(expr.op, cm.jump_if_condition_is_true),
                       lhs_reg, rhs_reg, 0, PolarityTarget(cm)))
    ELSE Panic(MarkIfLiteral(r.p, expr.args[2]))

\* lines 261-269: after the left operand, the right operand
ComparisonRhs(r, sel, expr, cm, lhs_reg, rhs_reg) ==
    IF r.res = "Panic" THEN r
    ELSE ComparisonBranch(
             Discard(translate_expr(MarkIfLiteral(r.p, expr.args[1]), sel,
                                    expr.args[2], rhs_reg)),
             expr, cm, lhs_reg, rhs_reg)

\* a comparison whose right operand is evaluated before its left operand
RightOperandFirst(prog, sel, expr, cm) ==
    ComparisonBranch(
        Discard(translate_expr(
                    Discard(translate_expr(
                                alloc_register(alloc_register(prog)), sel,
                                expr.args[2],
                                next_register(alloc_register(prog)))).p,
                    sel, expr.args[1], next_register(prog))),
        expr, cm, next_register(prog), next_register(alloc_register(prog)))

\* Binary(lhs, op, rhs) with a non-logical operator: lines 257-403
CondComparison(prog, sel, expr, cm) ==
    ComparisonRhs(
        Discard(translate_expr(alloc_register(alloc_register(prog)), sel,
                               expr.args[1], next_register(prog))),
        sel, expr, cm, next_register(prog), next_register(alloc_register(prog)))

\* lines 413-431, 442-460: the branch on a literal's register
LiteralBranch(p, reg, cm) ==
    EmitBranch(p, IF cm.jump_if_condition_is_true THEN "If" ELSE "IfNot",
               0, 0, reg, PolarityTarget(cm))

\* Literal used as a condition: lines 404-463
CondLiteral(prog, expr, cm) ==
    CASE expr.op = "Numeric" ->
           IF ParseI64(expr.name).ok
           THEN Ok(LiteralBranch(
                    emit_insn(alloc_register(prog),
                              Insn("Integer", 0, 0, 0, next_register(prog), 0,
                                   IntVal(ParseI64(expr.name).value), "")),
                    next_register(prog), cm))
           ELSE Err(prog)
      [] expr.op = "String" ->
           Ok(LiteralBranch(
                emit_insn(alloc_register(prog),
                          Insn("String8", 0, 0, 0, next_register(prog), 0,
                               StrVal(expr.name), "")),
                next_register(prog), cm))
      [] OTHER -> Panic(prog)

\* every element, the last one too, branching on Eq to the truth target
InElementAlwaysEq(p, rhs, i, lhs_reg, rhs_reg, jump_target_when_true, cm) ==
    EmitBranch(p, "Eq", lhs_reg, rhs_reg, 0, jump_target_when_true)

\* lines 532-551: the branch of element i of `lhs IN (rhs..)`
InElementBranch(p, rhs, i, lhs_reg, rhs_reg, jump_target_when_true, cm) ==
    IF i # Len(rhs)
    THEN EmitBranch(p, "Eq", lhs_reg, rhs_reg, 0, jump_target_when_true)
    ELSE EmitBranch(p, "Ne", lhs_reg, rhs_reg, 0, cm.jump_target_when_false)

\* the loop of `lhs IN (rhs..)`: lines 527-552, from element i on
RECURSIVE InLoop(_, _, _, _, _, _, _)
InLoopElement(r, sel, rhs, i, lhs_reg, rhs_reg, jump_target_when_true, cm) ==
    IF r.res # "Ok" THEN r
    ELSE InLoop(InElementBranch(r.p, rhs, i, lhs_reg, rhs_reg,
                                jump_target_when_true, cm),
                sel, rhs, i + 1, lhs_reg, jump_target_when_true, cm)

InLoop(p, sel, rhs, i, lhs_reg, jump_target_when_true, cm) ==
    IF i > Len(rhs) THEN Ok(p)
    ELSE InLoopElement(translate_expr(alloc_register(p), sel, rhs[i],
                                      next_register(p)),
                       sel, rhs, i, lhs_reg, next_register(p),
                       jump_target_when_true, cm)

\* the loop of `lhs NOT IN (rhs..)`: lines 565-576, from element i on
RECURSIVE NotInLoop(_, _, _, _, _, _)
NotInLoopElement(r, sel, rhs, i, lhs_reg, rhs_reg, cm) ==
    IF r.res # "Ok" THEN r
    ELSE NotInLoop(EmitBranch(r.p, "Eq", lhs_reg, rhs_reg, 0,
                              cm.jump_target_when_false),
                   sel, rhs, i + 1, lhs_reg, cm)

NotInLoop(p, sel, rhs, i, lhs_reg, cm) ==
    IF i > Len(rhs) THEN Ok(p)
    ELSE NotInLoopElement(translate_expr(alloc_register(p), sel, rhs[i],
                                         next_register(p)),
                          sel, rhs, i, lhs_reg, next_register(p), cm)

\* InList with rhs None: lines 483-507
CondInEmpty(p, not, cm) ==
    IF not
    THEN IF cm.jump_if_condition_is_true
         THEN Ok(EmitBranch(p, "Goto", 0, 0, 0, cm.jump_target_when_true))
         ELSE Ok(p)
    ELSE Ok(EmitBranch(p, "Goto", 0, 0, 0, cm.jump_target_when_false))

\* lines 519-523: the truth target of the elements, and the builder after it
InTruthTarget(p, cm) ==
    IF cm.jump_if_condition_is_true THEN cm.jump_target_when_true
    ELSE next_label(p)

InTruthAlloc(p, cm) ==
    IF cm.jump_if_condition_is_true THEN p ELSE allocate_label(p)

\* lines 553-562, 577-591: after the loop
InAfterLoop(r, cm, jump_target_when_true) ==
    IF r.res # "Ok" THEN r
    ELSE IF cm.jump_if_condition_is_true
    THEN Ok(EmitBranch(r.p, "Goto", 0, 0, 0, cm.jump_target_when_true))
    ELSE Ok(resolve_label(r.p, jump_target_when_true, offset(r.p)))

\* lines 483-591: after the evaluation of lhs
InAfterLhs(r, sel, expr, cm, lhs_reg) ==
    IF r.res # "Ok" THEN r
    ELSE IF expr.op = "None" THEN CondInEmpty(r.p, expr.not, cm)
    ELSE InAfterLoop(
             IF ~expr.not
             THEN InLoop(InTruthAlloc(r.p, cm), sel,
                         SubSeq(expr.args, 2, Len(expr.args)), 1, lhs_reg,
                         InTruthTarget(r.p, cm), cm)
             ELSE NotInLoop(InTruthAlloc(r.p, cm), sel,
                            SubSeq(expr.args, 2, Len(expr.args)), 1, lhs_reg, cm),
             cm, InTruthTarget(r.p, cm))

\* InList { lhs, not, rhs }: lines 464-592
CondInList(prog, sel, expr, cm) ==
    InAfterLhs(translate_expr(alloc_register(prog), sel, expr.args[1],
                              next_register(prog)),
               sel, expr, cm, next_register(prog))

\* the branch of LIKE, for NOT LIKE too
LikeOpcodeIgnoringNot(not, jump_if_condition_is_true) ==
    IF jump_if_condition_is_true THEN "If" ELSE "IfNot"

\* the branch on the result register of LIKE: lines 623-663
LikeBranchOpcode(not, jump_if_condition_is_true) ==
    IF ~not
    THEN IF jump_if_condition_is_true THEN "If" ELSE "IfNot"
    ELSE IF jump_if_condition_is_true THEN "IfNot" ELSE "If"

\* lines 613-663: Function{Like} and the branch, after the subject
LikeFunction(r, expr, cm, cur_reg, pattern_reg) ==
    IF r.res # "Ok" THEN r
    ELSE Ok(EmitBranch(
              emit_insn(r.p, Insn("Function", 0, 0, pattern_reg, cur_reg, 0,
                                  NullVal, "Like")),
              LikeBranchOpcode(expr.not, cm.jump_if_condition_is_true),
              0, 0, cur_reg, PolarityTarget(cm)))

\* lines 611-612: after the pattern, the subject
LikeSubject(r, sel, expr, cm, cur_reg, pattern_reg, column_reg) ==
    IF r.res # "Ok" THEN r
    ELSE LikeFunction(translate_expr(mark_last_insn_constant(r.p), sel,
                                     expr.args[1], column_reg),
                      expr, cm, cur_reg, pattern_reg)

\* Like { lhs, not, op, rhs }: lines 593-664
CondLike(prog, sel, expr, cm) ==
    IF expr.args[2].k # "Literal" THEN Panic(alloc_register(prog))
    ELSE IF expr.op # "Like" THEN Panic(alloc_register(prog))
    ELSE LikeSubject(
             translate_expr(alloc_register(alloc_register(alloc_register(prog))),
                            sel, expr.args[2], next_register(prog) + 1),
             sel, expr, cm, next_register(prog), next_register(prog) + 1,
             next_register(prog) + 2)

RECURSIVE translate_condition_expr(_, _, _, _)

\* line 238: after AND's left operand, its right operand
AndRight(r, sel, expr, cm) ==
    IF r.res = "Panic" THEN r
    ELSE Discard(translate_condition_expr(r.p, sel, expr.args[2], cm))

\* the OR's local label resolved to the start of the program
OrRightLabelAtStart(r, sel, expr, cm, jump_target_when_false) ==
    IF r.res = "Panic" THEN r
    ELSE Discard(translate_condition_expr(
                     resolve_label(r.p, jump_target_when_false, 0),
                     sel, expr.args[2], cm))

\* lines 254-255: after OR's left operand, the local label and the right operand
OrRight(r, sel, expr, cm, jump_target_when_false) ==
    IF r.res = "Panic" THEN r
    ELSE Discard(translate_condition_expr(
                     resolve_label(r.p, jump_target_when_false, offset(r.p)),
                     sel, expr.args[2], cm))

translate_condition_expr(prog, sel, expr, cm) ==
    CASE expr.k = "Between" -> Panic(prog)
      [] IsAnd(expr) ->
           AndRight(Discard(translate_condition_expr(
                                prog, sel, expr.args[1], AndLeftMetadata(cm))),
                    sel, expr, cm)
      [] IsOr(expr) ->
           OrRight(Discard(translate_condition_expr(
                               allocate_label(prog), sel, expr.args[1],
                               OrLeftMetadata(cm, next_label(prog)))),
                   sel, expr, cm, next_label(prog))
      [] expr.k = "Binary" /\ ~IsAnd(expr) /\ ~IsOr(expr) ->
           CondComparison(prog, sel, expr, cm)
      [] expr.k = "Literal" -> CondLiteral(prog, expr, cm)
      [] expr.k = "InList" -> CondInList(prog, sel, expr, cm)
      [] expr.k = "Like" -> CondLike(prog, sel, expr, cm)
      [] OTHER -> Panic(prog)

\* lines 163-167: after the condition; ret is Some(label), or 0 for None
WhereResult(r, jump_target_when_true, jump_target_when_false) ==
    IF r.res # "Ok" THEN [p |-> r.p, res |-> r.res, ret |-> 0]
    ELSE [p |-> resolve_label(r.p, jump_target_when_true, offset(r.p)),
          res |-> "Ok", ret |-> jump_target_when_false]

\* translate_where: lines 146-171
translate_where(sel, prog) ==
    IF sel.where_clause # NoExpr
    THEN WhereResult(
             translate_condition_expr(
                 allocate_label(allocate_label(prog)), sel, sel.where_clause,
                 ConditionMetadata(FALSE, next_label(allocate_label(prog)),
                                   next_label(prog))),
             next_label(allocate_label(prog)), next_label(prog))
    ELSE [p |-> prog, res |-> "Ok", ret |-> 0]

(***************************************************************************)
(* The virtual machine (vdbe): one step of the emitted code over one row.  *)
(* state is "running", "true" (control reached the offset after the        *)
(* emitted code), "false" (control reached the false target, which the     *)
(* caller resolves) or "fault" (a branch to a label nobody resolved).      *)
(***************************************************************************)
Row(column) ==
    CASE column = "a" -> IntVal(1)
      [] column = "b" -> IntVal(2)
      [] column = "c" -> IntVal(3)
      [] column = "d" -> IntVal(0)
      [] column = "s" -> StrVal("x")
      [] OTHER -> NullVal

Truthy(v) == v.t = "int" /\ v.i # 0

LikeMatches(pattern, subject) ==
    /\ pattern.t = "str"
    /\ subject.t = "str"
    /\ (pattern.s = "%" \/ pattern.s = subject.s)

\* whether a compare-and-branch instruction takes its branch
CompareHolds(op, x, y) ==
    CASE op = "Eq" -> x.t # "null" /\ y.t # "null" /\ x = y
      [] op = "Ne" -> x.t # "null" /\ y.t # "null" /\ x # y
      [] op = "Lt" -> x.t = "int" /\ y.t = "int" /\ x.i < y.i
      [] op = "Le" -> x.t = "int" /\ y.t = "int" /\ x.i <= y.i
      [] op = "Gt" -> x.t = "int" /\ y.t = "int" /\ x.i > y.i
      [] op = "Ge" -> x.t = "int" /\ y.t = "int" /\ x.i >= y.i

NewVm == [pc |-> 0, regs |-> <<>>, state |-> "idle"]

StartVm(p) ==
    [pc |-> 0, regs |-> [r \in 1..(p.next_free_register - 1) |-> NullVal],
     state |-> "running"]

Jump(p, m, l, false_label) ==
    IF l = false_label THEN [m EXCEPT !.state = "false"]
    ELSE IF p.labels[l] = Unresolved THEN [m EXCEPT !.state = "fault"]
    ELSE [m EXCEPT !.pc = p.labels[l]]

Fall(m) == [m EXCEPT !.pc = @ + 1]

VmExec(p, m, false_label) ==
    IF m.pc >= Len(p.insns) THEN [m EXCEPT !.state = "true"]
    ELSE LET i == p.insns[m.pc + 1]
         IN CASE i.op \in {"Integer", "String8", "Real", "Null"} ->
                   [m EXCEPT !.pc = @ + 1, !.regs[i.dest] = i.value]
              [] i.op = "Column" ->
                   [m EXCEPT !.pc = @ + 1, !.regs[i.dest] = Row(i.name)]
              [] i.op = "Function" ->
                   [m EXCEPT !.pc = @ + 1,
                             !.regs[i.dest] =
                                 IF LikeMatches(m.regs[i.reg], m.regs[i.reg + 1])
                                 THEN IntVal(1) ELSE IntVal(0)]
              [] i.op \in {"Eq", "Ne", "Lt", "Le", "Gt", "Ge"} ->
                   IF CompareHolds(i.op, m.regs[i.lhs], m.regs[i.rhs])
                   THEN Jump(p, m, i.target_pc, false_label) ELSE Fall(m)
              [] i.op = "If" ->
                   IF Truthy(m.regs[i.reg])
                   THEN Jump(p, m, i.target_pc, false_label) ELSE Fall(m)
              [] i.op = "IfNot" ->
                   IF ~Truthy(m.regs[i.reg])
                   THEN Jump(p, m, i.target_pc, false_label) ELSE Fall(m)
              [] i.op = "Goto" -> Jump(p, m, i.target_pc, false_label)

(***************************************************************************)
(* The inputs of the WHERE compiler.                                       *)
(***************************************************************************)
ColA == Id("a")
ColC == Id("c")
ColS == Id("s")
NoSuchColumn == Id("nosuch")

\* the leaves the generated condition trees are built from
CondLeaves ==
    { Binary(ColA, "Equals", Numeric("1")),
      Binary(ColC, "Greater", Numeric("3")),
      InList(ColA, FALSE, <<Numeric("2"), Numeric("1")>>),
      InList(ColA, FALSE, <<Numeric("1"), NoSuchColumn>>),
      Numeric("1.5"),
      Between(ColA, Numeric("1"), Numeric("2")) }

\* every leaf shape, compiled alone
SingleLeaves ==
    { Binary(ColA, op, Numeric(n)) : op \in ComparisonOps, n \in {"1", "2"} }
    \cup { Binary(Numeric("2"), op, ColC) : op \in ComparisonOps }
    \cup { Binary(ColA, op, Numeric("1")) : op \in {"Is", "IsNot", "Add"} }
    \cup { Binary(NoSuchColumn, "Equals", Numeric("1")),
           Binary(ColA, "Equals", NoSuchColumn) }
    \cup { InListNone(ColA, n) : n \in BOOLEAN }
    \cup { InList(ColA, n, <<Numeric(x)>>) : n \in BOOLEAN, x \in {"1", "2"} }
    \cup { InList(ColA, n, <<Numeric(x), Numeric("3")>>) :
             n \in BOOLEAN, x \in {"1", "2"} }
    \cup { InList(NoSuchColumn, FALSE, <<Numeric("1")>>) }
    \cup { Like(ColS, n, "Like", String(pat)) : n \in BOOLEAN, pat \in {"x", "y"} }
    \cup { Like(ColS, FALSE, op, String("x")) : op \in {"Glob", "Match", "Regexp"} }
    \cup { Like(ColS, FALSE, "Like", ColA) }
    \cup { Numeric("0"), Numeric("1"), String("x"), Null, ColA,
           Unary("Not", ColA) }

\* the conditions with n connectives, split i / n - 1 - i under the top one
TopTrees(leaves, n, i) ==
    { Binary(l, op, r) : l \in Trees(leaves, i), r \in Trees(leaves, n - 1 - i),
                         op \in {"And", "Or"} }

SingleTableSelect(w) ==
    [where_clause |-> w,
     src_tables |-> <<SrcTable("t1", "t1", "none", NoExpr)>>,
     loops |-> <<LoopInfo("t1", 0, 0)>>]

NoPlan == [kind |-> "none"]

(***************************************************************************)
(* SpecWhere: translate_where compiles a WHERE clause, then the emitted    *)
(* code runs over one row.                                                 *)
(***************************************************************************)
InitWhere ==
    /\ phase = "start"
    /\ \/ select \in { SingleTableSelect(w) : w \in SingleLeaves \cup CondLeaves }
       \/ \E n \in 1..MaxOps : \E i \in 0..(n - 1) :
             select \in { SingleTableSelect(w) : w \in TopTrees(CondLeaves, n, i) }
    /\ program = NewProgram
    /\ result = "none"
    /\ ret = 0
    /\ wc = <<>>
    /\ vm = NewVm
    /\ plan = NoPlan

TranslateWhere ==
    /\ phase = "start"
    /\ LET r == translate_where(select, program)
       IN /\ program' = r.p
          /\ result' = r.res
          /\ ret' = r.ret
          /\ vm' = IF r.res = "Ok" THEN StartVm(r.p) ELSE vm
    /\ phase' = "compiled"
    /\ UNCHANGED <<select, wc, plan>>

VmStep ==
    /\ phase = "compiled"
    /\ vm.state = "running"
    /\ vm' = VmExec(program, vm, ret)
    /\ UNCHANGED <<phase, select, program, result, ret, wc, plan>>

NextWhere == TranslateWhere \/ VmStep

SpecWhere == InitWhere /\ [][NextWhere]_vars

(***************************************************************************)
(* The meaning of a condition over the row, and its well-formedness: what  *)
(* the claims about the emitted code are measured against.                 *)
(***************************************************************************)
OperandValue(e) ==
    CASE e.k = "Literal" /\ e.op = "Numeric" ->
           IF ParseI64(e.name).ok THEN IntVal(ParseI64(e.name).value)
           ELSE StrVal(e.name)
      [] e.k = "Literal" /\ e.op = "String" -> StrVal(e.name)
      [] e.k \in {"Id", "Qualified"} -> Row(e.name)
      [] OTHER -> NullVal

ComparisonTruth(op, x, y) ==
    CASE op = "Greater" -> x.i > y.i
      [] op = "GreaterEquals" -> x.i >= y.i
      [] op = "Less" -> x.i < y.i
      [] op = "LessEquals" -> x.i <= y.i
      [] op = "Equals" -> x = y
      [] op = "NotEquals" -> x # y

RECURSIVE Truth(_)
Truth(e) ==
    CASE IsAnd(e) -> Truth(e.args[1]) /\ Truth(e.args[2])
      [] IsOr(e) -> Truth(e.args[1]) \/ Truth(e.args[2])
      [] e.k = "Binary" /\ ~IsAnd(e) /\ ~IsOr(e) ->
           ComparisonTruth(e.op, OperandValue(e.args[1]), OperandValue(e.args[2]))
      [] e.k = "Literal" -> Truthy(OperandValue(e))
      [] e.k = "InList" ->
           (\E i \in 2..Len(e.args) :
               OperandValue(e.args[1]) = OperandValue(e.args[i])) # e.not
      [] e.k = "Like" ->
           LikeMatches(OperandValue(e.args[2]), OperandValue(e.args[1])) # e.not
      [] OTHER -> FALSE

\* an operand the single-table Select can evaluate: an integer or string
\* literal, or a column of t1
GoodOperand(e) ==
    \/ e.k = "Literal" /\ e.op = "Numeric" /\ ParseI64(e.name).ok
    \/ e.k = "Literal" /\ e.op = "String"
    \/ e.k = "Id" /\ HasColumn("t1", e.name)

\* a condition built from AND, OR and comparison / IN / LIKE / literal leaves
RECURSIVE WellFormed(_)
WellFormed(e) ==
    CASE IsAnd(e) \/ IsOr(e) -> WellFormed(e.args[1]) /\ WellFormed(e.args[2])
      [] e.k = "Binary" /\ ~IsAnd(e) /\ ~IsOr(e) ->
           e.op \in ComparisonOps /\ GoodOperand(e.args[1]) /\ GoodOperand(e.args[2])
      [] e.k = "Literal" -> GoodOperand(e)
      [] e.k = "InList" -> \A i \in DOMAIN e.args : GoodOperand(e.args[i])
      [] e.k = "Like" ->
           /\ e.op = "Like"
           /\ GoodOperand(e.args[1])
           /\ e.args[2].k = "Literal" /\ e.args[2].op = "String"
      [] OTHER -> FALSE

\* some part of the condition fails to compile with a returned error: an
\* operand translate_expr rejects, or a numeric literal that is no i64
RECURSIVE HasFailingPart(_, _)
HasFailingPart(sel, e) ==
    CASE IsAnd(e) \/ IsOr(e) ->
           HasFailingPart(sel, e.args[1]) \/ HasFailingPart(sel, e.args[2])
      [] e.k = "Literal" -> e.op = "Numeric" /\ ~ParseI64(e.name).ok
      [] e.k = "Binary" /\ ~IsAnd(e) /\ ~IsOr(e) ->
           \E i \in DOMAIN e.args :
               translate_expr(NewProgram, sel, e.args[i], 1).res = "Err"
      [] e.k \in {"InList", "Like"} ->
           \E i \in DOMAIN e.args :
               translate_expr(NewProgram, sel, e.args[i], 1).res = "Err"
      [] OTHER -> FALSE

\* the condition holds a shape the compiler does not implement
RECURSIVE HasUnsupportedShape(_)
HasUnsupportedShape(e) ==
    CASE IsAnd(e) \/ IsOr(e) ->
           HasUnsupportedShape(e.args[1]) \/ HasUnsupportedShape(e.args[2])
      [] e.k = "Binary" /\ ~IsAnd(e) /\ ~IsOr(e) -> e.op \notin ComparisonOps
      [] e.k = "Like" -> e.op # "Like"
      [] e.k = "Literal" -> e.op \notin {"Numeric", "String"}
      [] e.k = "InList" -> FALSE
      [] OTHER -> TRUE

Compiled == phase = "compiled"
Halted == vm.state \in {"true", "false"}

(***************************************************************************)
(* Claims about translate_where and translate_condition_expr.              *)
(***************************************************************************)

\* C1: for every condition built from AND, OR and comparison / IN / LIKE /
\* literal leaves, the code emitted with jump_if_condition_is_true = false
\* reaches jump_target_when_false if and only if the condition is false, and
\* otherwise reaches the offset after the emitted code.
C1_FalseTargetIffConditionFalse ==
    (Compiled /\ result = "Ok" /\ WellFormed(select.where_clause) /\ Halted)
        => (vm.state = "false" <=> ~Truth(select.where_clause))

\* C6: label closure: when translate_where returns Ok, every label an emitted
\* instruction references, other than the returned false target, is resolved,
\* and no label is resolved more than once.
C6_LabelClosure ==
    (Compiled /\ result = "Ok")
        => /\ \A k \in DOMAIN program.label_deps :
                program.label_deps[k][2] # ret
                    => program.labels[program.label_deps[k][2]] # Unresolved
           /\ \A l \in DOMAIN program.resolutions : program.resolutions[l] <= 1

\* C7: errors propagate: when compiling some sub-expression of the condition
\* fails, translate_where does not return Ok.
C7_ErrorsPropagate ==
    (Compiled /\ HasFailingPart(select, select.where_clause)) => result # "Ok"

\* C8: a condition that contains an unsupported shape ends with an error
\* value returned to the caller: no abnormal abort, no Ok.
C8_UnsupportedShapeReturnsError ==
    (Compiled /\ HasUnsupportedShape(select.where_clause)) => result = "Err"

(***************************************************************************)
(* process_where: the WHERE clause and the JOIN ON clauses are split into  *)
(* WhereTerms, each with the cursor it is evaluated at.                    *)
(***************************************************************************)
WhereTerm(expr, evaluate_at_cursor) ==
    [expr |-> expr, evaluate_at_cursor |-> evaluate_at_cursor]

\* Option<&String>: None is <<>>, Some(name) is <<name>>
None == <<>>
Some(x) == <<x>>

Max(S) == CHOOSE x \in S : \A y \in S : y <= x
Min(S) == CHOOSE x \in S : \A y \in S : x <= y

\* the Result<Vec<usize>> of the introspection
Cursors(c) == [ok |-> TRUE, cursors |-> c]
NoCursors == [ok |-> FALSE, cursors |-> <<>>]

\* cursors.push(cursor_id) after a resolver's `?`
PushResolved(r) == IF r.ok THEN Cursors(<<r.cursor_id>>) ELSE NoCursors

\* the variants whose sub-expressions the introspection visits
IntrospectsArgs(e) ==
    \/ e.k \in {"Binary", "Like"}
    \/ e.k = "FunctionCall" /\ e.op = "Some"
    \/ e.k = "InList"

RECURSIVE introspect_expression_for_cursors(_, _)
RECURSIVE IntrospectArgs(_, _, _, _)

\* cursors.extend(introspect_expression_for_cursors(..)?) over args[i..]
IntrospectExtend(sel, args, i, acc, r) ==
    IF r.ok THEN IntrospectArgs(sel, args, i + 1, acc \o r.cursors)
    ELSE NoCursors

IntrospectArgs(sel, args, i, acc) ==
    IF i > Len(args) THEN Cursors(acc)
    ELSE IntrospectExtend(sel, args, i, acc,
                          introspect_expression_for_cursors(sel, args[i]))

introspect_expression_for_cursors(sel, where_expr) ==
    CASE IntrospectsArgs(where_expr) ->
           IntrospectArgs(sel, where_expr.args, 1, <<>>)
      [] where_expr.k = "Id" ->
           PushResolved(resolve_ident_table(where_expr.name, sel))
      [] where_expr.k = "Qualified" ->
           PushResolved(resolve_ident_qualified(where_expr.tbl, where_expr.name, sel))
      [] OTHER -> Cursors(<<>>)

\* the cursor of an outer join's ON term: the loop of the joined table
OuterJoinCursor(sel, table) ==
    IF \E i \in DOMAIN sel.loops : sel.loops[i].identifier = table
    THEN [ok |-> TRUE,
          cursor |-> sel.loops[Min({ i \in DOMAIN sel.loops :
                                       sel.loops[i].identifier = table })]
                        .open_cursor]
    ELSE [ok |-> FALSE, cursor |-> 0]

\* the cursor of any other term: the innermost cursor the expression depends
\* on, or the outermost open cursor when it depends on none
InnermostCursor(sel, r) ==
    IF ~r.ok \/ sel.loops = <<>> THEN [ok |-> FALSE, cursor |-> 0]
    ELSE [ok |-> TRUE,
          cursor |-> IF r.cursors = <<>>
                     THEN Min({ sel.loops[i].open_cursor : i \in DOMAIN sel.loops })
                     ELSE Max(Range(r.cursors))]

\* a placement that ignores the outer join
InnermostForEveryTerm(sel, expr, outer_join_table_name) ==
    InnermostCursor(sel, introspect_expression_for_cursors(sel, expr))

evaluate_at_cursor(sel, expr, outer_join_table_name) ==
    IF outer_join_table_name # None
    THEN OuterJoinCursor(sel, outer_join_table_name[1])
    ELSE InnermostCursor(sel, introspect_expression_for_cursors(sel, expr))

\* a split that also breaks ORs apart
SplitsAtOr(expr) == IsAnd(expr) \/ IsOr(expr)

\* the arm of the match that splits: Binary(left, And, right)
IsSplitPoint(expr) == IsAnd(expr)

\* the Result<()> of a split and the terms pushed so far
SplitOk(terms) == [res |-> "Ok", terms |-> terms]
SplitErr(terms) == [res |-> "Err", terms |-> terms]

RECURSIVE SplitQueue(_, _, _, _)

\* processed_where_clause.terms.push(term), after the `?` of the cursor
PushTerm(sel, queue, terms, outer_join_table_name, expr, c) ==
    IF c.ok
    THEN SplitQueue(sel, queue, Append(terms, WhereTerm(expr, c.cursor)),
                    outer_join_table_name)
    ELSE SplitErr(terms)

\* while let Some(expr) = queue.pop(): the queue is popped from its end
SplitQueue(sel, queue, terms, outer_join_table_name) ==
    IF queue = <<>> THEN SplitOk(terms)
    ELSE IF IsSplitPoint(queue[Len(queue)])
    THEN SplitQueue(sel,
                    SubSeq(queue, 1, Len(queue) - 1)
                        \o <<queue[Len(queue)].args[1], queue[Len(queue)].args[2]>>,
                    terms, outer_join_table_name)
    ELSE PushTerm(sel, SubSeq(queue, 1, Len(queue) - 1), terms,
                  outer_join_table_name, queue[Len(queue)],
                  evaluate_at_cursor(sel, queue[Len(queue)], outer_join_table_name))

split_constraint_to_terms(sel, terms, constraint, outer_join_table_name) ==
    SplitQueue(sel, <<constraint>>, terms, outer_join_table_name)

\* the JOIN ON clause of a FROM entry that process_where splits
HasOnConstraint(table) == table.join # "none" /\ table.constraint # NoExpr

OuterJoinName(table) ==
    IF table.join = "outer" THEN Some(table.identifier) ELSE None

\* for table in select.src_tables.iter(), from the i-th entry on
RECURSIVE ProcessJoins(_, _, _)
ProcessJoins(sel, i, r) ==
    IF r.res # "Ok" \/ i > Len(sel.src_tables) THEN r
    ELSE ProcessJoins(sel, i + 1,
                      IF HasOnConstraint(sel.src_tables[i])
                      THEN split_constraint_to_terms(
                               sel, r.terms, sel.src_tables[i].constraint,
                               OuterJoinName(sel.src_tables[i]))
                      ELSE r)

process_where(sel) ==
    ProcessJoins(sel, 1,
                 IF sel.where_clause # NoExpr
                 THEN split_constraint_to_terms(sel, <<>>, sel.where_clause, None)
                 ELSE SplitOk(<<>>))

(***************************************************************************)
(* SpecSplit: process_where over a two-table join.  t1 is the first FROM   *)
(* entry, t2 is joined to it (inner or outer) with or without an ON clause.*)
(***************************************************************************)
T1A == Binary(Qualified("t1", "a"), "Greater", Numeric("10"))
T2B == Binary(Qualified("t2", "b"), "Greater", Numeric("20"))
NegT2B == Unary("Negative", Qualified("t2", "b"))

\* the leaves the generated WHERE clauses are built from
SplitLeaves == { T1A, T2B, Binary(Qualified("t1", "a"), "Equals", NegT2B) }

\* every expression shape the introspection tells apart, split alone
SplitSingles ==
    { NoExpr, Numeric("0"), NegT2B,
      Binary(Id("a"), "Equals", Id("b")),
      Binary(Id("a"), "Equals", Id("c")),
      Binary(Id("nosuch"), "Equals", Numeric("1")),
      Binary(Qualified("t3", "d"), "Equals", Numeric("1")),
      InList(Qualified("t1", "a"), FALSE, <<Numeric("1"), Qualified("t2", "b")>>),
      InList(Qualified("t1", "a"), TRUE, <<Numeric("1")>>),
      InListNone(Qualified("t2", "b"), FALSE),
      Like(Qualified("t1", "s"), FALSE, "Like", String("x")),
      Like(String("x"), FALSE, "Like", Qualified("t2", "b")),
      FunctionCall("abs", <<Qualified("t2", "b")>>),
      FunctionCall("max", <<Qualified("t1", "a"), Id("nosuch")>>),
      FunctionCallNone("random"),
      Between(Qualified("t1", "a"), Numeric("1"), Qualified("t2", "b")) }

\* the ON clauses of the join; NoExpr is a join without one
OnConstraints == { NoExpr, T1A, T2B, Binary(T1A, "And", T2B), Numeric("0") }

\* the cursor the first loop opens; the second opens the next one
FirstCursors == {0, 1}

JoinSelect(w, join, on, cursor) ==
    [where_clause |-> w,
     src_tables |-> <<SrcTable("t1", "t1", "none", NoExpr),
                      SrcTable("t2", "t2", join, on)>>,
     loops |-> <<LoopInfo("t1", cursor, 0), LoopInfo("t2", cursor + 1, 0)>>]

InitSplit ==
    /\ phase = "start"
    /\ \E cursor \in FirstCursors : \E join \in {"inner", "outer"} :
       \E on \in OnConstraints :
          \/ select \in { JoinSelect(w, join, on, cursor) :
                            w \in SplitSingles \cup SplitLeaves }
          \/ \E n \in 1..MaxSplitOps : \E i \in 0..(n - 1) :
                select \in { JoinSelect(w, join, on, cursor) :
                               w \in TopTrees(SplitLeaves, n, i) }
    /\ program = NewProgram
    /\ result = "none"
    /\ ret = 0
    /\ wc = <<>>
    /\ vm = NewVm
    /\ plan = NoPlan

ProcessWhere ==
    /\ phase = "start"
    /\ LET r == process_where(select)
       IN /\ result' = r.res
          /\ wc' = IF r.res = "Ok" THEN r.terms ELSE <<>>
    /\ phase' = "split"
    /\ UNCHANGED <<select, program, ret, vm, plan>>

NextSplit == ProcessWhere

SpecSplit == InitSplit /\ [][NextSplit]_vars

(***************************************************************************)
(* What the claims about the split are measured against.                   *)
(***************************************************************************)
\* the conjuncts of a constraint, left to right
RECURSIVE Conjuncts(_)
Conjuncts(e) ==
    IF IsAnd(e) THEN Conjuncts(e.args[1]) \o Conjuncts(e.args[2]) ELSE <<e>>

\* the constraints process_where splits, in the order it splits them, each
\* with the outer-joined table it belongs to (None for WHERE and inner joins)
SplitCall(expr, outer) == [expr |-> expr, outer |-> outer]

RECURSIVE JoinCalls(_, _)
JoinCalls(sel, i) ==
    IF i > Len(sel.src_tables) THEN <<>>
    ELSE (IF HasOnConstraint(sel.src_tables[i])
          THEN <<SplitCall(sel.src_tables[i].constraint,
                           OuterJoinName(sel.src_tables[i]))>>
          ELSE <<>>) \o JoinCalls(sel, i + 1)

SplitCalls(sel) ==
    (IF sel.where_clause # NoExpr THEN <<SplitCall(sel.where_clause, None)>>
     ELSE <<>>) \o JoinCalls(sel, 1)

\* the terms before those of the c-th call, and the positions of its terms
RECURSIVE TermsBefore(_, _)
TermsBefore(calls, c) ==
    IF c = 1 THEN 0
    ELSE TermsBefore(calls, c - 1) + Len(Conjuncts(calls[c - 1].expr))

TermsOf(calls, c) ==
    (TermsBefore(calls, c) + 1)..(TermsBefore(calls, c) + Len(Conjuncts(calls[c].expr)))

\* the conjuncts of all calls, in order
RECURSIVE ConjunctsFrom(_, _)
ConjunctsFrom(calls, c) ==
    IF c > Len(calls) THEN <<>>
    ELSE Conjuncts(calls[c].expr) \o ConjunctsFrom(calls, c + 1)

Count(s, positions, x) == Cardinality({ k \in positions : s[k] = x })

TermExprs == [k \in DOMAIN wc |-> wc[k].expr]

\* the cursors of the tables any identifier anywhere inside e refers to
RECURSIVE ReferredCursors(_, _)
ReferredCursors(sel, e) ==
    CASE e.k = "Id" ->
           IF resolve_ident_table(e.name, sel).ok
           THEN {resolve_ident_table(e.name, sel).cursor_id} ELSE {}
      [] e.k = "Qualified" ->
           IF resolve_ident_qualified(e.tbl, e.name, sel).ok
           THEN {resolve_ident_qualified(e.tbl, e.name, sel).cursor_id} ELSE {}
      [] OTHER -> UNION { ReferredCursors(sel, e.args[i]) : i \in DOMAIN e.args }

OpenCursors(sel) == { sel.loops[i].open_cursor : i \in DOMAIN sel.loops }

SplitDone == phase = "split" /\ result = "Ok"

(***************************************************************************)
(* Claims about split_constraint_to_terms and process_where.               *)
(***************************************************************************)

\* C2: the terms appended for a constraint c1 AND c2 AND ... AND cn appear in
\* the order c1, c2, ..., cn.
C2_ConjunctOrderPreserved ==
    SplitDone => TermExprs = ConjunctsFrom(SplitCalls(select), 1)

\* C3: each split appends one term per conjunct: the multiset of its term
\* expressions is the multiset of the maximal sub-expressions that are not
\* AND nodes, no term is an AND, and an OR is kept whole as one term.
C3_OneTermPerConjunct ==
    SplitDone =>
        /\ Len(wc) = Len(ConjunctsFrom(SplitCalls(select), 1))
        /\ \A c \in DOMAIN SplitCalls(select) :
           \A x \in Range(Conjuncts(SplitCalls(select)[c].expr)) \cup Range(TermExprs) :
               Count(TermExprs, TermsOf(SplitCalls(select), c), x)
                   = Count(Conjuncts(SplitCalls(select)[c].expr),
                           DOMAIN Conjuncts(SplitCalls(select)[c].expr), x)
        /\ \A k \in DOMAIN wc : ~IsAnd(wc[k].expr)

\* the WHERE clause (x OR y) AND z was split into two terms, one of them the
\* whole OR
C3_Witness ==
    /\ SplitDone
    /\ IsAnd(select.where_clause)
    /\ IsOr(select.where_clause.args[1])
    /\ \E k \in TermsOf(SplitCalls(select), 1) :
           wc[k].expr = select.where_clause.args[1]
    /\ Cardinality(TermsOf(SplitCalls(select), 1)) = 2

\* C4: a term of the WHERE clause or of a non-outer join's ON clause is
\* evaluated at the maximum cursor over the tables that any identifier inside
\* it refers to, and at the minimum open cursor when it refers to none.
C4_InnermostReferredCursor ==
    SplitDone =>
        \A c \in DOMAIN SplitCalls(select) :
            SplitCalls(select)[c].outer = None =>
                \A k \in TermsOf(SplitCalls(select), c) :
                    wc[k].evaluate_at_cursor =
                        IF ReferredCursors(select, wc[k].expr) = {}
                        THEN Min(OpenCursors(select))
                        ELSE Max(ReferredCursors(select, wc[k].expr))

\* C5: a term of an outer join's ON clause is evaluated at the open_cursor of
\* the loop of the joined table, whatever tables the term refers to.
C5_OuterJoinTermAtJoinedTable ==
    SplitDone =>
        \A c \in DOMAIN SplitCalls(select) :
            SplitCalls(select)[c].outer # None =>
                \A k \in TermsOf(SplitCalls(select), c) :
                    \E i \in DOMAIN select.loops :
                        /\ select.loops[i].identifier = SplitCalls(select)[c].outer[1]
                        /\ wc[k].evaluate_at_cursor = select.loops[i].open_cursor

\* t1 LEFT JOIN t2 ON t1.a > 10: the term refers to t1 only and is evaluated
\* at the cursor of t2
C5_Witness ==
    /\ SplitDone
    /\ select.src_tables[2].join = "outer"
    /\ select.src_tables[2].constraint = T1A
    /\ select.where_clause = NoExpr
    /\ Len(wc) = 1
    /\ wc[1].expr = T1A
    /\ wc[1].evaluate_at_cursor = select.loops[2].open_cursor
    /\ ReferredCursors(select, wc[1].expr) = {select.loops[1].open_cursor}

(***************************************************************************)
(* plan.rs: the operator tree.  Every Operator is a record of one shape:   *)
(*   k         the variant                                                 *)
(*   children  source, or left and right of a Join                         *)
(*   table, table_identifier   of Scan and SeekRowid                       *)
(*   rowid_predicate, predicates, expressions (key of an Order),           *)
(*   aggregates, limit, outer  as in the enum                              *)
(* The predicates of Scan, SeekRowid and Join are an Option: None or       *)
(* Some(list); those of a Filter are the list itself.                      *)
(* An Rc<BTreeTable> is the name of the table in the catalog.              *)
(***************************************************************************)
Operator(k, id, children, table, table_identifier, rowid_predicate, predicates, expressions, aggregates, limit, outer) ==
    [k |-> k, id |-> id, children |-> children, table |-> table,
     table_identifier |-> table_identifier, rowid_predicate |-> rowid_predicate,
     predicates |-> predicates, expressions |-> expressions,
     aggregates |-> aggregates, limit |-> limit, outer |-> outer]

Nothing == Operator("Nothing", 0, <<>>, "", "", NoExpr, <<>>, <<>>, <<>>, 0, FALSE)
Scan(id, table, table_identifier, predicates) ==
    Operator("Scan", id, <<>>, table, table_identifier, NoExpr, predicates, <<>>,
             <<>>, 0, FALSE)
SeekRowid(id, table, table_identifier, rowid_predicate, predicates) ==
    Operator("SeekRowid", id, <<>>, table, table_identifier, rowid_predicate,
             predicates, <<>>, <<>>, 0, FALSE)
Join(id, left, right, predicates, outer) ==
    Operator("Join", id, <<left, right>>, "", "", NoExpr, predicates, <<>>, <<>>,
             0, outer)
Filter(id, source, predicates) ==
    Operator("Filter", id, <<source>>, "", "", NoExpr, predicates, <<>>, <<>>, 0,
             FALSE)
Limit(id, source, limit) ==
    Operator("Limit", id, <<source>>, "", "", NoExpr, <<>>, <<>>, <<>>, limit,
             FALSE)
Order(id, source, key) ==
    Operator("Order", id, <<source>>, "", "", NoExpr, <<>>, key, <<>>, 0, FALSE)
Projection(id, source, expressions) ==
    Operator("Projection", id, <<source>>, "", "", NoExpr, <<>>, expressions,
             <<>>, 0, FALSE)
Aggregate(id, source, aggregates) ==
    Operator("Aggregate", id, <<source>>, "", "", NoExpr, <<>>, <<>>, aggregates,
             0, FALSE)

\* one entry (ast::Expr, Direction) of an Order's key
SortKey(expr, direction) == [expr |-> expr, direction |-> direction]

\* struct Aggregate { func, args }
Agg(func, args) == [func |-> func, args |-> args]

\* ProjectionColumn
Column(expr) == [k |-> "Column", expr |-> expr, table |-> "", identifier |-> ""]
Star == [k |-> "Star", expr |-> NoExpr, table |-> "", identifier |-> ""]
TableStar(table, identifier) ==
    [k |-> "TableStar", expr |-> NoExpr, table |-> table, identifier |-> identifier]

\* one entry (Rc<BTreeTable>, String) of the referenced-tables vector
TableRef(table, identifier) == [table |-> table, identifier |-> identifier]

RECURSIVE SumOver(_)
SumOver(counts) ==
    IF counts = <<>> THEN 0 ELSE Head(counts) + SumOver(Tail(counts))

\* ProjectionColumn::column_count
ProjectionColumn_column_count(e, referenced_tables) ==
    CASE e.k = "Column" -> 1
      [] e.k = "Star" ->
           SumOver([i \in DOMAIN referenced_tables |->
                       Len(TableColumns(referenced_tables[i].table))])
      [] e.k = "TableStar" -> Len(TableColumns(e.table))

\* Operator::column_count
RECURSIVE column_count(_, _)
column_count(op, referenced_tables) ==
    CASE op.k = "Aggregate" -> Len(op.aggregates)
      [] op.k \in {"Filter", "Limit", "Order"} ->
           column_count(op.children[1], referenced_tables)
      [] op.k \in {"SeekRowid", "Scan"} -> Len(TableColumns(op.table))
      [] op.k = "Join" ->
           column_count(op.children[1], referenced_tables)
               + column_count(op.children[2], referenced_tables)
      [] op.k = "Projection" ->
           SumOver([i \in DOMAIN op.expressions |->
                       ProjectionColumn_column_count(op.expressions[i],
                                                     referenced_tables)])
      [] op.k = "Nothing" -> 0

\* the name of one Projection expression
ProjectionColumnName(e) ==
    CASE e.k = "Column" /\ e.expr.k = "Id" -> <<e.expr.name>>
      [] e.k = "Column" /\ e.expr.k = "Qualified" -> <<e.expr.tbl, ".", e.expr.name>>
      [] e.k = "Column" /\ e.expr.k \notin {"Id", "Qualified"} -> <<"expr">>
      [] e.k = "Star" -> <<"*">>
      [] e.k = "TableStar" -> <<e.identifier, ".", "*">>

\* the Vec<String> column_names returns, or the panic of its todo!()
Names(names) == [res |-> "Ok", names |-> names]
NamesPanic == [res |-> "Panic", names |-> <<>>]

\* names.extend(right.column_names())
ExtendNames(l, r) ==
    IF l.res = "Ok" /\ r.res = "Ok" THEN Names(l.names \o r.names) ELSE NamesPanic

\* Operator::column_names; a name is the sequence of the pieces format! joins
RECURSIVE column_names(_)
column_names(op) ==
    CASE op.k = "Aggregate" -> NamesPanic
      [] op.k \in {"Filter", "Limit", "Order"} -> column_names(op.children[1])
      [] op.k \in {"SeekRowid", "Scan"} ->
           Names([i \in DOMAIN TableColumns(op.table) |->
                     <<TableColumns(op.table)[i]>>])
      [] op.k = "Join" ->
           ExtendNames(column_names(op.children[1]), column_names(op.children[2]))
      [] op.k = "Projection" ->
           Names([i \in DOMAIN op.expressions |->
                     ProjectionColumnName(op.expressions[i])])
      [] op.k = "Nothing" -> Names(<<>>)

(***************************************************************************)
(* get_table_ref_bitmask_for_ast_expr: the positions of the referenced     *)
(* tables an expression mentions, as a bit mask.                           *)
(***************************************************************************)
\* util::normalize_ident on the identifiers the model uses: lower case
normalize_ident(name) ==
    CASE name = "A" -> "a"
      [] name = "B" -> "b"
      [] name = "T2" -> "t2"
      [] OTHER -> name

\* a | b on usize
RECURSIVE BitOr(_, _)
BitOr(a, b) ==
    IF a = 0 THEN b
    ELSE IF b = 0 THEN a
    ELSE (IF a % 2 = 1 \/ b % 2 = 1 THEN 1 ELSE 0) + 2 * BitOr(a \div 2, b \div 2)

\* 1 << index
Bit(index) == 2 ^ index

\* the Result<usize> of the analysis
Mask(m) == [res |-> "Ok", mask |-> m, err |-> ""]
\* crate::bail_parse_error!: err tells the four messages apart
MaskErr(err) == [res |-> "Err", mask |-> 0, err |-> err]

\* the variants whose sub-expressions the analysis visits
MaskVisitsArgs(e) ==
    \/ e.k \in {"Binary", "Like"}
    \/ e.k = "FunctionCall" /\ e.op = "Some"
    \/ e.k = "InList"

\* a resolution that takes the first table that has the column
FirstMatchOfId(tables, ident) ==
    IF \E i \in DOMAIN tables : HasColumn(tables[i].table, ident)
    THEN Mask(Bit(Min({ i \in DOMAIN tables : HasColumn(tables[i].table, ident) }) - 1))
    ELSE MaskErr("column not found")

\* Id: the only table that has the column; positions are 0-based
MaskOfId(tables, ident) ==
    IF Cardinality({ i \in DOMAIN tables : HasColumn(tables[i].table, ident) }) > 1
    THEN MaskErr("ambiguous column name")
    ELSE IF \E i \in DOMAIN tables : HasColumn(tables[i].table, ident)
    THEN Mask(Bit((CHOOSE i \in DOMAIN tables : HasColumn(tables[i].table, ident)) - 1))
    ELSE MaskErr("column not found")

\* Qualified: the first entry with that identifier, which must have the column
MaskOfQualified(tables, tbl, ident) ==
    IF \E i \in DOMAIN tables : tables[i].identifier = tbl
    THEN IF HasColumn(tables[Min({ i \in DOMAIN tables :
                                     tables[i].identifier = tbl })].table, ident)
         THEN Mask(Bit(Min({ i \in DOMAIN tables : tables[i].identifier = tbl }) - 1))
         ELSE MaskErr("column with qualified name not found")
    ELSE MaskErr("table not found")

RECURSIVE get_table_ref_bitmask_for_ast_expr(_, _)
RECURSIVE MaskOfArgs(_, _, _, _)

\* table_refs_mask |= get_table_ref_bitmask_for_ast_expr(..)? over args[i..]
MaskOrResult(tables, args, i, acc, r) ==
    IF r.res = "Ok" THEN MaskOfArgs(tables, args, i + 1, BitOr(acc, r.mask))
    ELSE r

MaskOfArgs(tables, args, i, acc) ==
    IF i > Len(args) THEN Mask(acc)
    ELSE MaskOrResult(tables, args, i, acc,
                      get_table_ref_bitmask_for_ast_expr(tables, args[i]))

get_table_ref_bitmask_for_ast_expr(tables, predicate) ==
    CASE MaskVisitsArgs(predicate) -> MaskOfArgs(tables, predicate.args, 1, 0)
      [] predicate.k = "Id" -> MaskOfId(tables, normalize_ident(predicate.name))
      [] predicate.k = "Qualified" ->
           MaskOfQualified(tables, normalize_ident(predicate.tbl),
                           normalize_ident(predicate.name))
      [] OTHER -> Mask(0)

(***************************************************************************)
(* get_table_ref_bitmask_for_query_plan_node: the positions of the tables  *)
(* an operator subtree reads.                                              *)
(***************************************************************************)
\* .unwrap() on a table that is in no entry
MaskPanic == [res |-> "Panic", mask |-> 0, err |-> ""]

\* tables.iter().position(|(t, _)| Rc::ptr_eq(t, table)).unwrap(): the first
\* entry that holds the same table
MaskOfTable(tables, table) ==
    IF \E i \in DOMAIN tables : tables[i].table = table
    THEN Mask(Bit(Min({ i \in DOMAIN tables : tables[i].table = table }) - 1))
    ELSE MaskPanic

\* table_refs_mask |= r?, then the masks of the predicates
MaskOrPredicates(tables, predicates, r) ==
    IF r.res = "Ok" THEN MaskOfArgs(tables, predicates, 1, r.mask) ELSE r

\* table_refs_mask |= left?; table_refs_mask |= right?
MaskOrRight(l, r) ==
    IF l.res # "Ok" THEN l
    ELSE IF r.res # "Ok" THEN r
    ELSE Mask(BitOr(l.mask, r.mask))

RECURSIVE get_table_ref_bitmask_for_query_plan_node(_, _)
get_table_ref_bitmask_for_query_plan_node(tables, node) ==
    CASE node.k \in {"Aggregate", "Limit", "Order", "Projection"} ->
           get_table_ref_bitmask_for_query_plan_node(tables, node.children[1])
      [] node.k = "Filter" ->
           MaskOrPredicates(tables, node.predicates,
               get_table_ref_bitmask_for_query_plan_node(tables, node.children[1]))
      [] node.k \in {"SeekRowid", "Scan"} -> MaskOfTable(tables, node.table)
      [] node.k = "Join" ->
           MaskOrRight(
               get_table_ref_bitmask_for_query_plan_node(tables, node.children[1]),
               get_table_ref_bitmask_for_query_plan_node(tables, node.children[2]))
      [] node.k = "Nothing" -> Mask(0)

(***************************************************************************)
(* impl Display for Operator (EXPLAIN QUERY PLAN).  A line is the sequence *)
(* of the pieces the format string joins; the indentation is one " " piece *)
(* per space.  The rendering is the sequence of the lines written.         *)
(***************************************************************************)
\* str::repeat
RECURSIVE Repeat(_, _)
Repeat(pieces, n) == IF n = 0 THEN <<>> ELSE pieces \o Repeat(pieces, n - 1)

\* an indentation of two spaces per level
IndentByTwo(level) == Repeat(<<" ", " ">>, level)

\* "    ".repeat(level)
Indent(level) == Repeat(<<" ", " ", " ", " ">>, level)

\* Vec<String>::join
RECURSIVE JoinWith(_, _)
JoinWith(texts, separator) ==
    IF texts = <<>> THEN <<>>
    ELSE IF Len(texts) = 1 THEN texts[1]
    ELSE texts[1] \o <<separator>> \o JoinWith(Tail(texts), separator)

\* usize::to_string on the limits the model uses
UsizeText(n) ==
    CASE n = 0 -> "0"
      [] n = 1 -> "1"
      [] n = 2 -> "2"
      [] OTHER -> "n"

\* ast::Operator's text
OperatorText(op) ==
    CASE op = "Greater" -> ">"
      [] op = "Equals" -> "="
      [] op = "And" -> "AND"
      [] op = "Or" -> "OR"
      [] OTHER -> op

\* ast::Expr::to_string
RECURSIVE ExprText(_)
ExprText(e) ==
    CASE e.k = "Id" -> <<e.name>>
      [] e.k = "Qualified" -> <<e.tbl, ".", e.name>>
      [] e.k = "Literal" -> <<e.name>>
      [] e.k = "Binary" ->
           ExprText(e.args[1]) \o <<" ", OperatorText(e.op), " ">> \o ExprText(e.args[2])
      [] OTHER -> <<"expr">>

ExprTexts(exprs) == [i \in DOMAIN exprs |-> ExprText(exprs[i])]

\* impl Display for Direction
DirectionText(direction) == IF direction = "Ascending" THEN "ASC" ELSE "DESC"

\* impl Display for Aggregate: "{:?}({})"
AggregateText(agg) ==
    <<agg.func, "(">> \o JoinWith(ExprTexts(agg.args), ", ") \o <<")">>

\* format!("{} {}", expr, dir)
SortKeyText(key) == ExprText(key.expr) \o <<" ", DirectionText(key.direction)>>

\* the text of one Projection expression
ProjectionColumnText(c) ==
    CASE c.k = "Column" -> ExprText(c.expr)
      [] c.k = "Star" -> <<"*">>
      [] c.k = "TableStar" -> <<c.identifier, ".", "*">>

\* predicates joined by " AND "
PredicatesText(predicates) == JoinWith(ExprTexts(predicates), " AND ")

\* the line an operator writes at a level
NodeLine(node, level) ==
    CASE node.k = "Aggregate" ->
           Indent(level) \o <<"AGGREGATE ">>
               \o JoinWith([i \in DOMAIN node.aggregates |->
                               AggregateText(node.aggregates[i])], ", ")
      [] node.k = "Filter" ->
           Indent(level) \o <<"FILTER ">> \o PredicatesText(node.predicates)
      [] node.k = "SeekRowid" ->
           Indent(level) \o <<"SEEK ", node.table, ".rowid ON rowid=">>
               \o ExprText(node.rowid_predicate)
               \o (IF node.predicates # None
                   THEN <<" FILTER ">> \o PredicatesText(node.predicates[1])
                   ELSE <<>>)
      [] node.k = "Limit" -> Indent(level) \o <<"TAKE ", UsizeText(node.limit)>>
      [] node.k = "Join" ->
           Indent(level) \o <<IF node.outer THEN "OUTER JOIN" ELSE "JOIN">>
               \o (IF node.predicates # None /\ node.predicates[1] # <<>>
                   THEN <<" ON ">> \o PredicatesText(node.predicates[1])
                   ELSE <<>>)
      [] node.k = "Order" ->
           Indent(level) \o <<"SORT ">>
               \o JoinWith([i \in DOMAIN node.expressions |->
                               SortKeyText(node.expressions[i])], ", ")
      [] node.k = "Projection" ->
           Indent(level) \o <<"PROJECT ">>
               \o JoinWith([i \in DOMAIN node.expressions |->
                               ProjectionColumnText(node.expressions[i])], ", ")
      [] node.k = "Scan" ->
           Indent(level) \o <<"SCAN ", node.table, " AS ", node.table_identifier>>
               \o (IF node.predicates # None
                   THEN <<" ", "FILTER ">> \o PredicatesText(node.predicates[1])
                   ELSE <<>>)

\* fmt_node: the operator's line, then its sources one level deeper
RECURSIVE fmt_node(_, _)
fmt_node(node, level) ==
    CASE node.k = "Nothing" -> <<>>
      [] node.k \in {"SeekRowid", "Scan"} -> <<NodeLine(node, level)>>
      [] node.k = "Join" ->
           <<NodeLine(node, level)>> \o fmt_node(node.children[1], level + 1)
               \o fmt_node(node.children[2], level + 1)
      [] OTHER -> <<NodeLine(node, level)>> \o fmt_node(node.children[1], level + 1)

\* impl Display for Operator
Operator_fmt(node) == [res |-> "Ok", lines |-> fmt_node(node, 0)]

(***************************************************************************)
(* SpecPlan: the plan.rs functions applied to a plan over one or two       *)
(* referenced tables.                                                      *)
(***************************************************************************)
\* the referenced-tables vectors: one table, joins, a self-join under two
\* identifiers, a join whose second identifier is written in upper case
ReferencedTables ==
    { <<TableRef("t1", "t1")>>,
      <<TableRef("t1", "t1"), TableRef("t2", "t2")>>,
      <<TableRef("t3", "t3"), TableRef("t2", "t2")>>,
      <<TableRef("t1", "t1"), TableRef("t1", "u")>>,
      <<TableRef("t1", "t1"), TableRef("t2", "T2")>> }

\* the plan below the root: the Scan or Join of the referenced tables
SourceOf(referenced_tables) ==
    IF Len(referenced_tables) = 1
    THEN Scan(1, referenced_tables[1].table, referenced_tables[1].identifier, <<>>)
    ELSE Join(1,
              Scan(2, referenced_tables[1].table, referenced_tables[1].identifier, <<>>),
              Scan(3, referenced_tables[2].table, referenced_tables[2].identifier, <<>>),
              <<>>, FALSE)

\* the expressions of a Projection
ProjectionColumns(referenced_tables) ==
    { Column(Id("a")), Column(Qualified("t2", "b")),
      Column(Binary(Id("a"), "Add", Numeric("1"))), Star }
    \cup { TableStar(referenced_tables[i].table, referenced_tables[i].identifier) :
             i \in DOMAIN referenced_tables }

\* the sequences of length n over S
RECURSIVE SeqsOfLen(_, _)
SeqsOfLen(S, n) ==
    IF n = 0 THEN {<<>>}
    ELSE { <<x>> \o q : x \in S, q \in SeqsOfLen(S, n - 1) }

\* the roots that are not a Projection
OtherRoots(referenced_tables) ==
    { Nothing,
      SourceOf(referenced_tables),
      SeekRowid(4, referenced_tables[1].table, referenced_tables[1].identifier,
                Numeric("1"), <<>>),
      Filter(4, SourceOf(referenced_tables), <<T2B>>),
      Limit(4, SourceOf(referenced_tables), 1),
      Order(4, SourceOf(referenced_tables), <<SortKey(Id("a"), "Ascending")>>),
      Aggregate(4, SourceOf(referenced_tables), <<Agg("Count", <<Id("a")>>)>>),
      Limit(5, Aggregate(4, SourceOf(referenced_tables),
                         <<Agg("Count", <<Id("a")>>)>>), 1) }

\* the expressions whose table references are analysed
MaskPredicates ==
    { T1A, T2B, NegT2B, Numeric("0"),
      Binary(T1A, "And", T2B),
      Binary(Id("A"), "Equals", Id("b")),
      Binary(Qualified("T2", "B"), "Equals", Numeric("1")),
      Binary(Qualified("t1", "a"), "Equals", NegT2B),
      Id("a"), Id("A"), Id("B"), Id("c"), Id("nosuch"),
      Qualified("t9", "a"), Qualified("t2", "a"), Qualified("t2", "b"),
      Qualified("T2", "B"), Qualified("u", "a"),
      InList(Qualified("t1", "a"), FALSE, <<Numeric("1"), Qualified("t2", "b")>>),
      InListNone(Qualified("t2", "b"), FALSE),
      Like(Qualified("t1", "s"), FALSE, "Like", Qualified("t2", "b")),
      FunctionCall("abs", <<Qualified("t2", "b")>>),
      FunctionCallNone("random"),
      Between(Qualified("t1", "a"), Numeric("1"), Qualified("t2", "b")) }

NotRun == [res |-> "none"]

NewPlan(referenced_tables, root_node, predicate) ==
    [kind |-> "plan", referenced_tables |-> referenced_tables,
     root_node |-> root_node, predicate |-> predicate,
     count |-> NotRun, names |-> NotRun, mask |-> NotRun,
     node_mask |-> NotRun, text |-> NotRun]

InitPlan ==
    /\ phase = "plan"
    /\ \E referenced_tables \in ReferencedTables : \E predicate \in MaskPredicates :
          \/ plan \in { NewPlan(referenced_tables, root_node, predicate) :
                          root_node \in OtherRoots(referenced_tables) }
          \/ \E n \in 0..MaxProj :
                plan \in { NewPlan(referenced_tables,
                                   Projection(4, SourceOf(referenced_tables), expressions),
                                   predicate) :
                             expressions \in SeqsOfLen(ProjectionColumns(referenced_tables), n) }
    /\ select = NoSelect
    /\ program = NewProgram
    /\ result = "none"
    /\ ret = 0
    /\ wc = <<>>
    /\ vm = NewVm

ColumnCount ==
    /\ phase = "plan"
    /\ plan.count = NotRun
    /\ plan' = [plan EXCEPT !.count =
                   [res |-> "Ok",
                    n |-> column_count(plan.root_node, plan.referenced_tables)]]
    /\ UNCHANGED <<phase, select, program, result, ret, wc, vm>>

ColumnNames ==
    /\ phase = "plan"
    /\ plan.names = NotRun
    /\ plan' = [plan EXCEPT !.names = column_names(plan.root_node)]
    /\ UNCHANGED <<phase, select, program, result, ret, wc, vm>>

TableRefBitmaskForAstExpr ==
    /\ phase = "plan"
    /\ plan.mask = NotRun
    /\ plan' = [plan EXCEPT !.mask =
                   get_table_ref_bitmask_for_ast_expr(plan.referenced_tables,
                                                      plan.predicate)]
    /\ UNCHANGED <<phase, select, program, result, ret, wc, vm>>

NextPlan == ColumnCount \/ ColumnNames \/ TableRefBitmaskForAstExpr

SpecPlan == InitPlan /\ [][NextPlan]_vars

(***************************************************************************)
(* What the claims about plan.rs are measured against.                     *)
(***************************************************************************)
\* the position (1-based) an identifier resolves to, as a set: empty when it
\* does not resolve
PositionsOfId(tables, ident) ==
    IF Cardinality({ i \in DOMAIN tables : HasColumn(tables[i].table, ident) }) = 1
    THEN { i \in DOMAIN tables : HasColumn(tables[i].table, ident) }
    ELSE {}

PositionsOfQualified(tables, tbl, ident) ==
    { i \in DOMAIN tables :
        /\ tables[i].identifier = tbl
        /\ \A j \in 1..(i - 1) : tables[j].identifier # tbl
        /\ HasColumn(tables[i].table, ident) }

\* the positions the identifiers anywhere inside e resolve to
RECURSIVE ResolvedPositions(_, _)
ResolvedPositions(tables, e) ==
    CASE e.k = "Id" -> PositionsOfId(tables, normalize_ident(e.name))
      [] e.k = "Qualified" ->
           PositionsOfQualified(tables, normalize_ident(e.tbl),
                                normalize_ident(e.name))
      [] OTHER -> UNION { ResolvedPositions(tables, e.args[i]) : i \in DOMAIN e.args }

BitSet(mask, index) == (mask \div Bit(index)) % 2 = 1

(***************************************************************************)
(* Claims about plan.rs.                                                   *)
(***************************************************************************)

\* C9: for every Projection, the number of names column_names() returns
\* equals column_count(referenced_tables).
C9_ProjectionNamesMatchCount ==
    (/\ phase = "plan"
     /\ plan.root_node.k = "Projection"
     /\ plan.names.res = "Ok"
     /\ plan.count.res = "Ok")
        => Len(plan.names.names) = plan.count.n

\* C10: when get_table_ref_bitmask_for_ast_expr returns Ok(mask), bit i of
\* mask is set if and only if the expression contains, at any depth and in
\* any shape, an identifier that resolves to referenced-tables position i.
C10_MaskBitIffIdentifierResolves ==
    (phase = "plan" /\ plan.mask.res = "Ok")
        => \A i \in DOMAIN plan.referenced_tables :
               BitSet(plan.mask.mask, i - 1)
                   <=> i \in ResolvedPositions(plan.referenced_tables, plan.predicate)

(***************************************************************************)
(* SpecTree: the functions that walk the operator tree, applied to plans   *)
(* over one table, a join of two tables, and a self-join of one table      *)
(* under two identifiers.                                                  *)
(***************************************************************************)
TreeTables ==
    { <<TableRef("t1", "t1")>>,
      <<TableRef("t1", "t1"), TableRef("t2", "t2")>>,
      <<TableRef("t1", "t1"), TableRef("t1", "u")>> }

\* the Scan and the SeekRowid of the FROM occurrence at position i (1-based)
ScanOf(tables, i, predicates) ==
    Scan(1, tables[i].table, tables[i].identifier, predicates)
SeekRowidOf(tables, i, predicates) ==
    SeekRowid(1, tables[i].table, tables[i].identifier, Numeric("1"), predicates)

\* the operands of the generated joins
JoinLeaves(tables) ==
    {Nothing}
    \cup { ScanOf(tables, i, None) : i \in DOMAIN tables }
    \cup { SeekRowidOf(tables, 1, None) }

\* predicates and outer flag of the generated joins
JoinKinds ==
    { <<None, FALSE>>, <<None, TRUE>>, <<Some(<<>>), FALSE>>,
      <<Some(<<T2B>>), TRUE>> }

\* the operators without a single source: leaves and joins of leaves
TreeSources(tables) ==
    JoinLeaves(tables)
    \cup { ScanOf(tables, i, Some(<<T1A>>)) : i \in DOMAIN tables }
    \cup { SeekRowidOf(tables, i, Some(<<T1A>>)) : i \in DOMAIN tables }
    \cup { Join(2, l, r, kind[1], kind[2]) :
             l \in JoinLeaves(tables), r \in JoinLeaves(tables), kind \in JoinKinds }

\* the single-source operators put over a source
Wrappers(source) ==
    { Filter(3, source, <<T1A, T2B>>),
      Filter(3, source, <<Id("nosuch")>>),
      Limit(3, source, 1),
      Order(3, source, <<SortKey(Id("a"), "Descending")>>),
      Projection(3, source, <<Column(Qualified("t1", "a")), Star>>),
      Aggregate(3, source, <<Agg("Count", <<Id("a")>>)>>) }

RECURSIVE Wrapped(_, _)
Wrapped(tables, n) ==
    IF n = 0 THEN TreeSources(tables)
    ELSE UNION { Wrappers(source) : source \in Wrapped(tables, n - 1) }

\* SELECT t1.foo FROM t1 ORDER BY t1.foo LIMIT 1
ExamplePlan ==
    Limit(4,
          Order(3,
                Projection(2, Scan(1, "t1", "t1", None),
                           <<Column(Qualified("t1", "foo"))>>),
                <<SortKey(Qualified("t1", "foo"), "Ascending")>>),
          1)

InitTree ==
    /\ phase = "tree"
    /\ \E tables \in TreeTables :
          \/ plan = NewPlan(tables, ExamplePlan, NoExpr)
          \/ \E n \in 0..MaxWrap :
                plan \in { NewPlan(tables, root_node, NoExpr) :
                             root_node \in Wrapped(tables, n) }
    /\ select = NoSelect
    /\ program = NewProgram
    /\ result = "none"
    /\ ret = 0
    /\ wc = <<>>
    /\ vm = NewVm

TableRefBitmaskForQueryPlanNode ==
    /\ phase = "tree"
    /\ plan.node_mask = NotRun
    /\ plan' = [plan EXCEPT !.node_mask =
                   get_table_ref_bitmask_for_query_plan_node(plan.referenced_tables,
                                                             plan.root_node)]
    /\ UNCHANGED <<phase, select, program, result, ret, wc, vm>>

Explain ==
    /\ phase = "tree"
    /\ plan.text = NotRun
    /\ plan' = [plan EXCEPT !.text = Operator_fmt(plan.root_node)]
    /\ UNCHANGED <<phase, select, program, result, ret, wc, vm>>

NextTree == TableRefBitmaskForQueryPlanNode \/ Explain

SpecTree == InitTree /\ [][NextTree]_vars

(***************************************************************************)
(* What the claims about the tree walks are measured against.              *)
(***************************************************************************)
\* the position (1-based) of the FROM occurrence a Scan or SeekRowid was
\* built for: the entry with its table and its identifier
OccurrencesOf(tables, node) ==
    { i \in DOMAIN tables :
        /\ tables[i].table = node.table
        /\ tables[i].identifier = node.table_identifier }

\* the positions of the Scan and SeekRowid leaves of a subtree
RECURSIVE SourcesConsumed(_, _)
SourcesConsumed(tables, node) ==
    IF node.k \in {"Scan", "SeekRowid"} THEN OccurrencesOf(tables, node)
    ELSE UNION { SourcesConsumed(tables, node.children[i]) :
                   i \in DOMAIN node.children }

NodeMaskDone == phase = "tree" /\ plan.node_mask.res = "Ok"

(***************************************************************************)
(* Claims about get_table_ref_bitmask_for_query_plan_node.                 *)
(***************************************************************************)

\* C11: the mask of an operator subtree is the OR of 1 << position over its
\* Scan and SeekRowid leaves: Join ignores its ON predicates and Filter,
\* Aggregate, Order, Projection and Limit return exactly their child's mask.
C11_MaskIsSourcesConsumed ==
    NodeMaskDone =>
        \A i \in DOMAIN plan.referenced_tables :
            BitSet(plan.node_mask.mask, i - 1)
                <=> i \in SourcesConsumed(plan.referenced_tables, plan.root_node)

\* C12: a Scan or SeekRowid built for the FROM occurrence at position i has
\* the mask 1 << i, also when the same table occurs at two positions under
\* different identifiers.
C12_LeafMaskIsItsPosition ==
    (NodeMaskDone /\ plan.root_node.k \in {"Scan", "SeekRowid"}) =>
        \A i \in OccurrencesOf(plan.referenced_tables, plan.root_node) :
            plan.node_mask.mask = Bit(i - 1)

(***************************************************************************)
(* Claims about the resolution of identifiers against the referenced       *)
(* tables.                                                                 *)
(***************************************************************************)
\* the lower-case form of the identifiers the model uses
LowerCase(name) ==
    CASE name = "A" -> "a"
      [] name = "B" -> "b"
      [] name = "T2" -> "t2"
      [] name = "U" -> "u"
      [] OTHER -> name

SameIdent(x, y) == LowerCase(x) = LowerCase(y)

\* the entries whose table has a column x, compared case-insensitively
ColumnOwners(tables, x) ==
    { i \in DOMAIN tables :
        \E c \in Range(TableColumns(tables[i].table)) : SameIdent(c, x) }

\* the entries whose alias is t, compared case-insensitively
AliasOwners(tables, t) ==
    { i \in DOMAIN tables : SameIdent(tables[i].identifier, t) }

AstMaskDone == phase = "plan" /\ plan.mask # NotRun

\* C13: resolving a bare identifier x has three outcomes, by the number of
\* entries whose table has a column x (case-insensitively): none is 'column
\* not found', two or more is 'ambiguous column', one at position i is the
\* mask 1 << i.
C13_BareIdentifierOutcomes ==
    (AstMaskDone /\ plan.predicate.k = "Id") =>
        CASE ColumnOwners(plan.referenced_tables, plan.predicate.name) = {} ->
               plan.mask.res = "Err" /\ plan.mask.err = "column not found"
          [] Cardinality(ColumnOwners(plan.referenced_tables, plan.predicate.name)) >= 2 ->
               plan.mask.res = "Err" /\ plan.mask.err = "ambiguous column name"
          [] OTHER ->
               /\ plan.mask.res = "Ok"
               /\ \A i \in ColumnOwners(plan.referenced_tables, plan.predicate.name) :
                      plan.mask.mask = Bit(i - 1)

\* the identifier B, written in upper case, is a column of the second of two
\* tables only and resolves to the mask 1 << 1
C13_Witness ==
    /\ AstMaskDone
    /\ plan.predicate = Id("B")
    /\ Len(plan.referenced_tables) = 2
    /\ ColumnOwners(plan.referenced_tables, "B") = {2}
    /\ plan.mask = Mask(2)

\* C14: resolving a qualified identifier t.x compares t with the aliases
\* case-insensitively: no entry with that alias is 'table not found', an
\* entry whose table has no column x is 'qualified column not found',
\* otherwise the result is 1 << position of the entry.
C14_QualifiedIdentifierOutcomes ==
    (AstMaskDone /\ plan.predicate.k = "Qualified") =>
        CASE AliasOwners(plan.referenced_tables, plan.predicate.tbl) = {} ->
               plan.mask.res = "Err" /\ plan.mask.err = "table not found"
          [] /\ AliasOwners(plan.referenced_tables, plan.predicate.tbl) # {}
             /\ \A i \in AliasOwners(plan.referenced_tables, plan.predicate.tbl) :
                    i \notin ColumnOwners(plan.referenced_tables, plan.predicate.name) ->
               /\ plan.mask.res = "Err"
               /\ plan.mask.err = "column with qualified name not found"
          [] OTHER ->
               /\ plan.mask.res = "Ok"
               /\ \A i \in AliasOwners(plan.referenced_tables, plan.predicate.tbl) :
                      plan.mask.mask = Bit(i - 1)

(***************************************************************************)
(* Claims about the EXPLAIN rendering.                                     *)
(***************************************************************************)
\* the non-Nothing operators of a tree in pre-order, each with its depth
RECURSIVE PreOrder(_, _)
PreOrder(node, depth) ==
    IF node.k = "Nothing" THEN <<>>
    ELSE <<[node |-> node, depth |-> depth]>>
         \o (IF Len(node.children) >= 1
             THEN PreOrder(node.children[1], depth + 1) ELSE <<>>)
         \o (IF Len(node.children) >= 2
             THEN PreOrder(node.children[2], depth + 1) ELSE <<>>)

\* the number of spaces a line starts with
RECURSIVE LeadingSpaces(_)
LeadingSpaces(line) ==
    IF line # <<>> /\ Head(line) = " " THEN 1 + LeadingSpaces(Tail(line)) ELSE 0

\* the keyword an operator's line starts with
Keyword(node) ==
    CASE node.k = "Aggregate" -> "AGGREGATE "
      [] node.k = "Filter" -> "FILTER "
      [] node.k = "SeekRowid" -> "SEEK "
      [] node.k = "Limit" -> "TAKE "
      [] node.k = "Join" -> IF node.outer THEN "OUTER JOIN" ELSE "JOIN"
      [] node.k = "Order" -> "SORT "
      [] node.k = "Projection" -> "PROJECT "
      [] node.k = "Scan" -> "SCAN "

ExplainDone == phase = "tree" /\ plan.text.res = "Ok"

\* C15: the rendering has one line per non-Nothing operator, in pre-order
\* (for a Join the left subtree before the right), each prefixed by exactly
\* 4 * depth spaces; Nothing emits no text.
C15_OneIndentedLinePerOperator ==
    ExplainDone =>
        /\ Len(plan.text.lines) = Len(PreOrder(plan.root_node, 0))
        /\ \A j \in DOMAIN plan.text.lines :
              /\ LeadingSpaces(plan.text.lines[j])
                     = 4 * PreOrder(plan.root_node, 0)[j].depth
              /\ Len(plan.text.lines[j]) > 4 * PreOrder(plan.root_node, 0)[j].depth
              /\ plan.text.lines[j][4 * PreOrder(plan.root_node, 0)[j].depth + 1]
                     = Keyword(PreOrder(plan.root_node, 0)[j].node)

\* Limit(1) over Order(t1.foo ASC) over Projection(t1.foo) over Scan(t1 AS t1)
\* renders TAKE 1 / SORT t1.foo ASC / PROJECT t1.foo / SCAN t1 AS t1 at
\* indentation 0, 4, 8, 12
C15_Witness ==
    /\ ExplainDone
    /\ plan.root_node = ExamplePlan
    /\ plan.text.lines =
         << <<"TAKE ", "1">>,
            Repeat(<<" ">>, 4) \o <<"SORT ", "t1", ".", "foo", " ", "ASC">>,
            Repeat(<<" ">>, 8) \o <<"PROJECT ", "t1", ".", "foo">>,
            Repeat(<<" ">>, 12) \o <<"SCAN ", "t1", " AS ", "t1">> >>

(***************************************************************************)
(* translate_processed_where (where_clause.rs 178-207): the terms of one   *)
(* loop compiled into the program.  Besides the builder and the outcome,   *)
(* the result lists, for every term it compiled, the term's index, its     *)
(* jump_target_when_true and the offsets its instructions lie between.     *)
(***************************************************************************)
LoopResult(p, res, compiled) == [p |-> p, res |-> res, compiled |-> compiled]

\* a term whose jump_target_when_true is left unresolved
TermLeftUnresolved(t, r, i, jump_target_when_true, from) ==
    IF t.res # "Ok" THEN LoopResult(t.p, t.res, r.compiled)
    ELSE LoopResult(
             t.p, "Ok",
             Append(r.compiled,
                    [term |-> i, jump_target_when_true |-> jump_target_when_true,
                     from |-> from, to |-> offset(t.p)]))

\* lines 191-203: after translate_condition_expr, `?` and resolve_label
TermResult(t, r, i, jump_target_when_true, from) ==
    IF t.res # "Ok" THEN LoopResult(t.p, t.res, r.compiled)
    ELSE LoopResult(
             resolve_label(t.p, jump_target_when_true, offset(t.p)), "Ok",
             Append(r.compiled,
                    [term |-> i, jump_target_when_true |-> jump_target_when_true,
                     from |-> from, to |-> offset(t.p)]))

\* lines 185-204: the loop over where_c.terms, from term i on
RECURSIVE ProcessedTerms(_, _, _, _, _)
ProcessedTerms(r, sel, current_loop, terms, i) ==
    IF i > Len(terms) \/ r.res # "Ok" THEN r
    ELSE IF terms[i].evaluate_at_cursor # current_loop.open_cursor
    THEN ProcessedTerms(r, sel, current_loop, terms, i + 1)
    ELSE ProcessedTerms(
             TermResult(
                 translate_condition_expr(
                     allocate_label(r.p), sel, terms[i].expr,
                     ConditionMetadata(FALSE, next_label(r.p),
                                       current_loop.next_row_label)),
                 r, i, next_label(r.p), offset(r.p)),
             sel, current_loop, terms, i + 1)

translate_processed_where(prog, sel, current_loop, where_c) ==
    ProcessedTerms(LoopResult(prog, "Ok", <<>>), sel, current_loop, where_c, 1)

(***************************************************************************)
(* SpecLoops: the split terms of a two-table join compiled loop by loop,   *)
(* the outer loop first.  Each loop's next_row_label was allocated when    *)
(* the loop was opened.                                                    *)
(***************************************************************************)
\* the builder after both loops were opened
LoopProgram == allocate_label(allocate_label(NewProgram))

LoopSelect(w, join, on, cursor) ==
    [JoinSelect(w, join, on, cursor) EXCEPT
        !.loops = <<LoopInfo("t1", cursor, 1), LoopInfo("t2", cursor + 1, 2)>>]

\* conditions whose terms compile to several instructions and inner labels
LoopSingles ==
    { Binary(Binary(T1A, "Or", T2B), "And", T1A),
      InList(Qualified("t1", "a"), FALSE, <<Numeric("1"), Numeric("2")>>),
      Binary(Id("a"), "Equals", Id("b")) }

\* what the last call compiled: the loop's index, the builder it started
\* from, and the terms it compiled
NoLoop == [loop |-> 0, before |-> LoopProgram, compiled |-> <<>>]

InitLoops ==
    /\ phase = "loops"
    /\ \E cursor \in FirstCursors : \E join \in {"inner", "outer"} :
       \E on \in OnConstraints :
          \/ select \in { LoopSelect(w, join, on, cursor) :
                            w \in SplitSingles \cup SplitLeaves \cup LoopSingles }
          \/ \E n \in 1..MaxSplitOps : \E i \in 0..(n - 1) :
                select \in { LoopSelect(w, join, on, cursor) :
                               w \in TopTrees(SplitLeaves, n, i) }
    /\ process_where(select).res = "Ok"
    /\ wc = process_where(select).terms
    /\ program = LoopProgram
    /\ result = "Ok"
    /\ ret = NoLoop
    /\ vm = NewVm
    /\ plan = NoPlan

TranslateProcessedWhere ==
    /\ phase = "loops"
    /\ result = "Ok"
    /\ ret.loop < Len(select.loops)
    /\ LET r == translate_processed_where(
                    program, select, select.loops[ret.loop + 1], wc)
       IN /\ program' = r.p
          /\ result' = r.res
          /\ ret' = [loop |-> ret.loop + 1, before |-> program,
                     compiled |-> r.compiled]
    /\ UNCHANGED <<phase, select, wc, vm, plan>>

NextLoops == TranslateProcessedWhere

SpecLoops == InitLoops /\ [][NextLoops]_vars

(***************************************************************************)
(* Claims about translate_processed_where.                                 *)
(***************************************************************************)
\* a loop was compiled and the call returned Ok
LoopDone == phase = "loops" /\ ret.loop > 0 /\ result = "Ok"

\* the indices of the terms to evaluate at a loop's cursor, in order
RECURSIVE TermsAtCursor(_, _, _)
TermsAtCursor(terms, cursor, i) ==
    IF i > Len(terms) THEN <<>>
    ELSE (IF terms[i].evaluate_at_cursor = cursor THEN <<i>> ELSE <<>>)
         \o TermsAtCursor(terms, cursor, i + 1)

\* the labels the instructions at offsets from..(to - 1) branch to
TargetsBetween(p, from, to) ==
    { p.label_deps[k][2] : k \in { d \in DOMAIN p.label_deps :
                                     /\ p.label_deps[d][1] >= from
                                     /\ p.label_deps[d][1] < to } }

\* C16: a call of translate_processed_where that returns Ok compiled exactly
\* the terms whose evaluate_at_cursor is the loop's open_cursor, in their
\* order, one after the other and with nothing in between; when there is no
\* such term the builder is unchanged; every compiled term's
\* jump_target_when_true is a label that did not exist before the term and is
\* resolved to the offset right after the term's instructions; the only label
\* from before the term that the term's instructions branch to is the loop's
\* next_row_label.
C16_LoopCompilesItsTerms ==
    LoopDone =>
        /\ [j \in DOMAIN ret.compiled |-> ret.compiled[j].term]
               = TermsAtCursor(wc, select.loops[ret.loop].open_cursor, 1)
        /\ ret.compiled = <<>> => program = ret.before
        /\ ret.compiled # <<>> =>
               /\ ret.compiled[1].from = offset(ret.before)
               /\ ret.compiled[Len(ret.compiled)].to = offset(program)
               /\ program.next_free_register >= ret.before.next_free_register
        /\ \A j \in DOMAIN ret.compiled :
              /\ j > 1 => ret.compiled[j].from = ret.compiled[j - 1].to
              /\ ret.compiled[j].jump_target_when_true > Len(ret.before.labels)
              /\ j > 1 => ret.compiled[j].jump_target_when_true
                              > ret.compiled[j - 1].jump_target_when_true
              /\ program.labels[ret.compiled[j].jump_target_when_true]
                     = ret.compiled[j].to
              /\ program.resolutions[ret.compiled[j].jump_target_when_true] = 1
              /\ \A l \in TargetsBetween(program, ret.compiled[j].from,
                                         ret.compiled[j].to) :
                    l < ret.compiled[j].jump_target_when_true
                        => l = select.loops[ret.loop].next_row_label

\* the inner loop compiled two terms after the outer loop compiled one
C16_Witness ==
    /\ LoopDone
    /\ ret.loop = 2
    /\ Len(ret.compiled) = 2
    /\ offset(ret.before) > 0
    /\ Len(wc) = 3
    /\ ret.compiled[2].to > ret.compiled[2].from

(***************************************************************************)
(* Claims about the branches of the code emitted for AND, OR and the       *)
(* comparisons, measured on the WHERE clause translate_where compiles.     *)
(***************************************************************************)
\* the builder and the metadata translate_where hands to the condition
WhereProgram == allocate_label(allocate_label(NewProgram))
WhereMetadata ==
    ConditionMetadata(FALSE, next_label(allocate_label(NewProgram)),
                      next_label(NewProgram))

\* the offset at which the code of a top-level AND's left operand ends
AndLeftEnd ==
    offset(translate_condition_expr(WhereProgram, select,
                                    select.where_clause.args[1],
                                    AndLeftMetadata(WhereMetadata)).p)

\* the labels the instructions at offsets below `to` branch to
TargetsBefore(p, to) ==
    { p.label_deps[k][2] :
        k \in { d \in DOMAIN p.label_deps : p.label_deps[d][1] < to } }

RECURSIVE ContainsOr(_)
ContainsOr(e) ==
    \/ IsOr(e)
    \/ e.k = "Binary" /\ (ContainsOr(e.args[1]) \/ ContainsOr(e.args[2]))

\* C17: in the code emitted for an AND, no instruction of the left operand
\* branches to the caller's jump_target_when_true, whatever the left operand.
C17_AndLeftNeverJumpsToTrue ==
    (Compiled /\ result = "Ok" /\ IsAnd(select.where_clause))
        => WhereMetadata.jump_target_when_true
               \notin TargetsBefore(program, AndLeftEnd)

\* C18: translate_condition_expr invoked with jump_if_condition_is_true =
\* false (as translate_where invokes it) emits no instruction that branches to
\* the caller's jump_target_when_true: the true outcome is reached by falling
\* through.
C18_NoJumpToTrueWhenJumpingOnFalse ==
    (Compiled /\ result = "Ok")
        => WhereMetadata.jump_target_when_true
               \notin TargetsBefore(program, offset(program))

(***************************************************************************)
(* SpecCompare: translate_condition_expr applied to one comparison, under  *)
(* either polarity, on an empty builder and on one already in use.         *)
(***************************************************************************)
CompareOperands ==
    { ColA, ColC, ColS, Numeric("1"), Numeric("3"), String("x"), NoSuchColumn }

\* a builder with two registers and one instruction already in use
UsedProgram ==
    emit_insn(alloc_register(alloc_register(WhereProgram)),
              Insn("Integer", 0, 0, 0, 1, 0, IntVal(7), ""))

\* the call's arguments: its metadata and the builder it starts from
CompareCall(cm, before) == [cm |-> cm, before |-> before]

InitCompare ==
    /\ phase = "compare"
    /\ \E op \in ComparisonOps : \E l \in CompareOperands :
       \E r \in CompareOperands :
          select = SingleTableSelect(Binary(l, op, r))
    /\ program \in {WhereProgram, UsedProgram}
    /\ \E jif \in BOOLEAN :
          ret = CompareCall(ConditionMetadata(jif, 2, 1), program)
    /\ result = "none"
    /\ wc = <<>>
    /\ vm = NewVm
    /\ plan = NoPlan

TranslateConditionExpr ==
    /\ phase = "compare"
    /\ LET r == translate_condition_expr(program, select, select.where_clause,
                                         ret.cm)
       IN /\ program' = r.p
          /\ result' = r.res
    /\ phase' = "compared"
    /\ UNCHANGED <<select, ret, wc, vm, plan>>

NextCompare == TranslateConditionExpr

SpecCompare == InitCompare /\ [][NextCompare]_vars

(***************************************************************************)
(* Claims about the code of one comparison.                                *)
(***************************************************************************)
CompareDone == phase = "compared" /\ result = "Ok"

\* the offsets (from 1) of the instructions the call emitted
Emitted == (offset(ret.before) + 1)..offset(program)

CompareOpcodes == {"Eq", "Ne", "Lt", "Le", "Gt", "Ge"}

\* the comparison in its natural sense, and its logical negation
NaturalOpcode(op) ==
    CASE op = "Greater" -> "Gt"
      [] op = "GreaterEquals" -> "Ge"
      [] op = "Less" -> "Lt"
      [] op = "LessEquals" -> "Le"
      [] op = "Equals" -> "Eq"
      [] op = "NotEquals" -> "Ne"

NegatedOpcode(op) ==
    CASE op = "Greater" -> "Le"
      [] op = "GreaterEquals" -> "Lt"
      [] op = "Less" -> "Ge"
      [] op = "LessEquals" -> "Gt"
      [] op = "Equals" -> "Ne"
      [] op = "NotEquals" -> "Eq"

\* both operands of the compiled comparison are integers
IntegerOperands ==
    /\ GoodOperand(select.where_clause.args[1])
    /\ GoodOperand(select.where_clause.args[2])
    /\ OperandValue(select.where_clause.args[1]).t = "int"
    /\ OperandValue(select.where_clause.args[2]).t = "int"

\* C19: a comparison compiles to exactly one compare-and-branch, the last
\* instruction: with jump_if_condition_is_true it is the natural opcode and
\* targets jump_target_when_true, otherwise the negated opcode and targets
\* jump_target_when_false; over integer operands its branch is taken exactly
\* when the comparison's truth value is the polarity jumped on.
C19_OneCompareAndBranch ==
    CompareDone =>
        /\ Cardinality({ k \in Emitted : program.insns[k].op \in CompareOpcodes }) = 1
        /\ Cardinality({ k \in Emitted : program.insns[k].target_pc # 0 }) = 1
        /\ program.insns[offset(program)].op =
               (IF ret.cm.jump_if_condition_is_true
                THEN NaturalOpcode(select.where_clause.op)
                ELSE NegatedOpcode(select.where_clause.op))
        /\ program.insns[offset(program)].target_pc =
               (IF ret.cm.jump_if_condition_is_true
                THEN ret.cm.jump_target_when_true
                ELSE ret.cm.jump_target_when_false)
        /\ program.label_deps =
               Append(ret.before.label_deps,
                      <<offset(program) - 1,
                        program.insns[offset(program)].target_pc>>)
        /\ IntegerOperands =>
               (CompareHolds(program.insns[offset(program)].op,
                             OperandValue(select.where_clause.args[1]),
                             OperandValue(select.where_clause.args[2]))
                <=> (ComparisonTruth(select.where_clause.op,
                                     OperandValue(select.where_clause.args[1]),
                                     OperandValue(select.where_clause.args[2]))
                     = ret.cm.jump_if_condition_is_true))

\* c >= 3 compiled to jump when false, on a builder in use: Lt to the false
\* target; the comparison is true of the row and the branch is not taken
C19_Witness ==
    /\ CompareDone
    /\ ret.before = UsedProgram
    /\ select.where_clause = Binary(ColC, "GreaterEquals", Numeric("3"))
    /\ ~ret.cm.jump_if_condition_is_true
    /\ program.insns[offset(program)].op = "Lt"
    /\ program.insns[offset(program)].target_pc = 1
    /\ ~CompareHolds("Lt", Row("c"), IntVal(3))

\* the value an operand-loading instruction puts into its register
LoadedValue(insn) == IF insn.op = "Column" THEN Row(insn.name) ELSE insn.value

\* C20: the code of a comparison is the instructions of the left operand,
\* then those of the right operand, then the single compare-and-branch; the
\* operands go into two distinct registers allocated by this call, and the
\* compare-and-branch reads exactly these two as lhs and rhs.
C20_OperandsThenCompare ==
    CompareDone =>
        /\ program.next_free_register = ret.before.next_free_register + 2
        /\ program.insns[offset(program)].lhs # program.insns[offset(program)].rhs
        /\ {program.insns[offset(program)].lhs, program.insns[offset(program)].rhs}
               = ret.before.next_free_register..(program.next_free_register - 1)
        /\ \A k \in Emitted \ {offset(program)} :
              /\ program.insns[k].op \notin CompareOpcodes
              /\ program.insns[k].dest \in {program.insns[offset(program)].lhs,
                                            program.insns[offset(program)].rhs}
        /\ \A j, k \in Emitted \ {offset(program)} :
              (/\ program.insns[j].dest = program.insns[offset(program)].lhs
               /\ program.insns[k].dest = program.insns[offset(program)].rhs)
                  => j < k
        /\ (/\ GoodOperand(select.where_clause.args[1])
            /\ GoodOperand(select.where_clause.args[2]))
               => /\ offset(program) = offset(ret.before) + 3
                  /\ program.insns[offset(program) - 2].dest
                         = program.insns[offset(program)].lhs
                  /\ LoadedValue(program.insns[offset(program) - 2])
                         = OperandValue(select.where_clause.args[1])
                  /\ program.insns[offset(program) - 1].dest
                         = program.insns[offset(program)].rhs
                  /\ LoadedValue(program.insns[offset(program) - 1])
                         = OperandValue(select.where_clause.args[2])

\* a < 3 on a builder in use: Column a into register 3, Integer 3 into
\* register 4, then the compare-and-branch reading registers 3 and 4
C20_Witness ==
    /\ CompareDone
    /\ ret.before = UsedProgram
    /\ select.where_clause = Binary(ColA, "Less", Numeric("3"))
    /\ offset(program) = 4
    /\ program.insns[2].op = "Column" /\ program.insns[2].dest = 3
    /\ program.insns[3].op = "Integer" /\ program.insns[3].dest = 4
    /\ program.insns[4].lhs = 3 /\ program.insns[4].rhs = 4

(***************************************************************************)
(* SpecCondition: translate_condition_expr applied to one IN, LIKE or OR   *)
(* condition under either polarity, by a caller that resolves the true     *)
(* target right after the condition's code (as translate_where and         *)
(* translate_processed_where do); then the emitted code runs over one row. *)
(***************************************************************************)
InElements == { Numeric("1"), Numeric("2"), ColC, NoSuchColumn }

InConditions ==
    { InListNone(x, n) : x \in {ColA, NoSuchColumn}, n \in BOOLEAN }
    \cup { InList(NoSuchColumn, n, <<Numeric("1")>>) : n \in BOOLEAN }

LikeConditions ==
    { Like(x, n, "Like", String(pat)) :
        x \in {ColS, ColA, NoSuchColumn}, n \in BOOLEAN, pat \in {"x", "y", "%"} }
    \cup { Like(ColS, FALSE, op, String("x")) : op \in {"Like", "Glob"} }
    \cup { Like(ColS, FALSE, "Like", ColA) }

OrConditions ==
    { Binary(Binary(ColA, op1, Numeric(n)), "Or",
             Binary(ColC, op2, Numeric("3"))) :
        op1 \in ComparisonOps, op2 \in ComparisonOps, n \in {"1", "2"} }
    \cup { Binary(Binary(NoSuchColumn, "Equals", Numeric("1")), "Or",
                  Binary(ColC, "Equals", Numeric("3"))) }

InitCondition ==
    /\ phase = "condition"
    /\ \/ select \in { SingleTableSelect(w) :
                         w \in InConditions \cup LikeConditions \cup OrConditions }
       \/ \E len \in 1..MaxList : \E n \in BOOLEAN :
             select \in { SingleTableSelect(InList(ColA, n, rhs)) :
                            rhs \in SeqsOfLen(InElements, len) }
    /\ program \in {WhereProgram, UsedProgram}
    /\ \E jif \in BOOLEAN :
          ret = CompareCall(ConditionMetadata(jif, 2, 1), program)
    /\ result = "none"
    /\ wc = <<>>
    /\ vm = NewVm
    /\ plan = NoPlan

\* the caller's resolve_label of the true target, after an Ok
CallerResolves(r, jump_target_when_true) ==
    IF r.res = "Ok"
    THEN resolve_label(r.p, jump_target_when_true, offset(r.p))
    ELSE r.p

TranslateCondition ==
    /\ phase = "condition"
    /\ LET r == translate_condition_expr(program, select, select.where_clause,
                                         ret.cm)
       IN /\ program' = CallerResolves(r, ret.cm.jump_target_when_true)
          /\ result' = r.res
          /\ vm' = IF r.res = "Ok"
                   THEN StartVm(CallerResolves(r, ret.cm.jump_target_when_true))
                   ELSE vm
    /\ phase' = "conditioned"
    /\ UNCHANGED <<select, ret, wc, plan>>

ConditionStep ==
    /\ phase = "conditioned"
    /\ vm.state = "running"
    /\ vm' = VmExec(program, vm, ret.cm.jump_target_when_false)
    /\ UNCHANGED <<phase, select, program, result, ret, wc, plan>>

NextCondition == TranslateCondition \/ ConditionStep

SpecCondition == InitCondition /\ [][NextCondition]_vars

(***************************************************************************)
(* Claims about the code of IN, LIKE and OR.                               *)
(***************************************************************************)
ConditionDone == phase = "conditioned" /\ result = "Ok"

\* the offsets (from 1) of the emitted instructions that branch
Branches == { k \in Emitted : program.insns[k].target_pc # 0 }

\* exactly one branch was emitted: a Goto to the label, as the last instruction
OnlyGotoTo(l) ==
    /\ Branches = {offset(program)}
    /\ offset(program) > offset(ret.before) + 1
    /\ program.insns[offset(program)].op = "Goto"
    /\ program.insns[offset(program)].target_pc = l

\* C21: an IN with an absent list, after evaluating lhs: `x IN ()` emits
\* exactly one Goto to jump_target_when_false when jumping on false and no
\* branch when jumping on true; `x NOT IN ()` emits exactly one Goto to
\* jump_target_when_true when jumping on true and no branch when jumping on
\* false.
C21_EmptyInList ==
    (/\ ConditionDone
     /\ select.where_clause.k = "InList"
     /\ select.where_clause.op = "None")
        => IF select.where_clause.not = ret.cm.jump_if_condition_is_true
           THEN OnlyGotoTo(IF select.where_clause.not
                           THEN ret.cm.jump_target_when_true
                           ELSE ret.cm.jump_target_when_false)
           ELSE Branches = {}

\* `x IN (v1, ..., vn)` with n >= 1 was compiled
InListDone ==
    /\ ConditionDone
    /\ select.where_clause.k = "InList"
    /\ select.where_clause.op = "Some"
    /\ ~select.where_clause.not

\* the offset (from 1) of the comparison of element i
ElementCompare(i) == offset(ret.before) + 1 + 2 * i

\* the truth target of the elements
TruthTarget ==
    IF ret.cm.jump_if_condition_is_true THEN ret.cm.jump_target_when_true
    ELSE Len(ret.before.labels) + 1

\* C22: `x IN (v1, ..., vn)`, n >= 1, compiles to the load of x and, for each
\* vi, the load of vi and a comparison of x with it: Eq branching to the truth
\* target for i < n, Ne branching to jump_target_when_false for vn.  The truth
\* target is the caller's jump_target_when_true when jumping on true, and
\* otherwise a new label resolved at the offset right after the last
\* comparison.  Run over a row, the code reaches the false target exactly when
\* x equals no vi, and otherwise falls through or reaches the truth target.
C22_InListComparisons ==
    InListDone =>
        /\ { k \in Emitted : program.insns[k].op \in CompareOpcodes }
               = { ElementCompare(i) : i \in 1..(Len(select.where_clause.args) - 1) }
        /\ \A i \in 1..(Len(select.where_clause.args) - 1) :
              /\ program.insns[ElementCompare(i)].lhs
                     = program.insns[offset(ret.before) + 1].dest
              /\ program.insns[ElementCompare(i)].rhs
                     = program.insns[ElementCompare(i) - 1].dest
              /\ program.insns[ElementCompare(i)].rhs
                     # program.insns[ElementCompare(i)].lhs
              /\ LoadedValue(program.insns[ElementCompare(i) - 1])
                     = OperandValue(select.where_clause.args[i + 1])
              /\ IF i < Len(select.where_clause.args) - 1
                 THEN /\ program.insns[ElementCompare(i)].op = "Eq"
                      /\ program.insns[ElementCompare(i)].target_pc = TruthTarget
                 ELSE /\ program.insns[ElementCompare(i)].op = "Ne"
                      /\ program.insns[ElementCompare(i)].target_pc
                             = ret.cm.jump_target_when_false
        /\ LoadedValue(program.insns[offset(ret.before) + 1])
               = OperandValue(select.where_clause.args[1])
        /\ ~ret.cm.jump_if_condition_is_true =>
              /\ Len(program.labels) = Len(ret.before.labels) + 1
              /\ program.labels[TruthTarget]
                     = ElementCompare(Len(select.where_clause.args) - 1)
              /\ offset(program) = ElementCompare(Len(select.where_clause.args) - 1)
        /\ vm.state # "fault"
        /\ Halted =>
              (vm.state = "false"
               <=> \A i \in 2..Len(select.where_clause.args) :
                      OperandValue(select.where_clause.args[1])
                          # OperandValue(select.where_clause.args[i]))

\* a IN (2, c, 1) compiled to jump on false on a builder in use: the row's
\* a = 1 matches the last element and the code falls through
C22_Witness ==
    /\ InListDone
    /\ ret.before = UsedProgram
    /\ ~ret.cm.jump_if_condition_is_true
    /\ select.where_clause.args = <<ColA, Numeric("2"), ColC, Numeric("1")>>
    /\ program.insns[4].op = "Eq" /\ program.insns[4].target_pc = 3
    /\ program.insns[8].op = "Ne" /\ program.insns[8].target_pc = 1
    /\ program.labels[3] = 8
    /\ vm.state = "true"

\* a LIKE or NOT LIKE was compiled
LikeDone == ConditionDone /\ select.where_clause.k = "Like"

\* C23: LIKE / NOT LIKE compiles to the load of the pattern (rhs), flagged
\* constant, the load of the subject (lhs) into the next register,
\* Function{Like} starting at the pattern's register, and exactly one branch
\* on the function's result register: If to the true target for LIKE jumping
\* on true, IfNot to the false target for LIKE jumping on false, IfNot to the
\* true target for NOT LIKE jumping on true, If to the false target for NOT
\* LIKE jumping on false.
C23_LikeCode ==
    LikeDone =>
        /\ offset(program) = offset(ret.before) + 4
        /\ LoadedValue(program.insns[offset(ret.before) + 1])
               = OperandValue(select.where_clause.args[2])
        /\ LoadedValue(program.insns[offset(ret.before) + 2])
               = OperandValue(select.where_clause.args[1])
        /\ program.insns[offset(ret.before) + 2].dest
               = program.insns[offset(ret.before) + 1].dest + 1
        /\ program.constant_insns
               = ret.before.constant_insns \cup {offset(ret.before)}
        /\ program.insns[offset(ret.before) + 3].op = "Function"
        /\ program.insns[offset(ret.before) + 3].name = "Like"
        /\ program.insns[offset(ret.before) + 3].reg
               = program.insns[offset(ret.before) + 1].dest
        /\ program.insns[offset(ret.before) + 3].dest
               \notin { program.insns[offset(ret.before) + 1].dest,
                        program.insns[offset(ret.before) + 2].dest }
        /\ { program.insns[offset(ret.before) + k].dest : k \in 1..3 }
               = ret.before.next_free_register..(program.next_free_register - 1)
        /\ Branches = {offset(program)}
        /\ program.insns[offset(program)].reg
               = program.insns[offset(ret.before) + 3].dest
        /\ program.insns[offset(program)].op =
               (IF select.where_clause.not = ret.cm.jump_if_condition_is_true
                THEN "IfNot" ELSE "If")
        /\ program.insns[offset(program)].target_pc =
               (IF ret.cm.jump_if_condition_is_true
                THEN ret.cm.jump_target_when_true
                ELSE ret.cm.jump_target_when_false)

\* s NOT LIKE 'y' compiled to jump on false on a builder in use: String8 'y'
\* into register 4, Column s into register 5, Like into register 3, then If
\* on register 3 to the false target
C23_Witness ==
    /\ LikeDone
    /\ ret.before = UsedProgram
    /\ select.where_clause = Like(ColS, TRUE, "Like", String("y"))
    /\ ~ret.cm.jump_if_condition_is_true
    /\ program.insns[2].op = "String8" /\ program.insns[2].dest = 4
    /\ program.insns[3].op = "Column" /\ program.insns[3].dest = 5
    /\ program.insns[4].reg = 4 /\ program.insns[4].dest = 3
    /\ program.insns[5].op = "If" /\ program.insns[5].reg = 3
    /\ program.insns[5].target_pc = 1
    /\ program.constant_insns = {1}

\* `A OR B` over two comparisons was compiled to jump on false
OrDone ==
    /\ ConditionDone
    /\ IsOr(select.where_clause)
    /\ ~ret.cm.jump_if_condition_is_true

\* the offsets (from 1) of the emitted comparisons, and the first of them
Compares == { k \in Emitted : program.insns[k].op \in CompareOpcodes }
FirstCompare == CHOOSE k \in Compares : \A j \in Compares : k <= j

\* C24: `A OR B` over comparisons, compiled to jump on false: the code of A
\* ends in the natural-sense comparison, which branches to a truth target
\* resolved after B's comparison; the OR's local false label is resolved at
\* the offset of B's first instruction, right after A's comparison; B ends in
\* the negated comparison, which branches to the caller's
\* jump_target_when_false.
C24_OrOfComparisons ==
    OrDone =>
        /\ Compares = {FirstCompare, offset(program)}
        /\ FirstCompare < offset(program)
        /\ program.insns[FirstCompare].op
               = NaturalOpcode(select.where_clause.args[1].op)
        /\ program.insns[FirstCompare].target_pc = ret.cm.jump_target_when_true
        /\ program.labels[ret.cm.jump_target_when_true] >= offset(program)
        /\ Len(program.labels) = Len(ret.before.labels) + 1
        /\ program.labels[Len(program.labels)] = FirstCompare
        /\ program.resolutions[Len(program.labels)] = 1
        /\ program.insns[offset(program)].op
               = NegatedOpcode(select.where_clause.args[2].op)
        /\ program.insns[offset(program)].target_pc
               = ret.cm.jump_target_when_false

\* a = 1 OR c = 3 on a builder in use: Eq to the true target at offset 3, the
\* local false label resolved at 4, where the code of c = 3 starts, and Ne to
\* the false target at offset 6
C24_Witness ==
    /\ OrDone
    /\ ret.before = UsedProgram
    /\ select.where_clause = Binary(Binary(ColA, "Equals", Numeric("1")), "Or",
                                    Binary(ColC, "Equals", Numeric("3")))
    /\ program.insns[4].op = "Eq" /\ program.insns[4].target_pc = 2
    /\ program.labels[3] = 4
    /\ program.insns[5].op = "Column" /\ program.insns[5].name = "c"
    /\ program.insns[7].op = "Ne" /\ program.insns[7].target_pc = 1
    /\ program.labels[2] = 7

(***************************************************************************)
(* Claims about constant marking and about the direction of the branches.  *)
(***************************************************************************)
\* the offsets (from 0) of the instructions that load a literal operand of
\* the compiled comparison: operand 1 goes to the register the comparison
\* reads as lhs, operand 2 to the one it reads as rhs
LiteralLoads ==
    { k - 1 : k \in { j \in Emitted \ {offset(program)} :
                        \/ /\ select.where_clause.args[1].k = "Literal"
                           /\ program.insns[j].dest
                                  = program.insns[offset(program)].lhs
                        \/ /\ select.where_clause.args[2].k = "Literal"
                           /\ program.insns[j].dest
                                  = program.insns[offset(program)].rhs } }

\* C25: after a comparison is compiled, the instructions flagged constant are
\* the ones flagged before plus exactly the instructions that load its
\* literal operands: no earlier instruction, no instruction of a non-literal
\* operand and no branch is flagged, also when an operand fails to evaluate
\* and emits nothing.
C25_ConstantMarksAreLiteralLoads ==
    CompareDone =>
        program.constant_insns = ret.before.constant_insns \cup LiteralLoads

\* nosuch = 1 on a builder in use: the left operand fails and emits nothing,
\* the Integer of the right operand is flagged, the earlier instruction is not
C25_Witness ==
    /\ CompareDone
    /\ ret.before = UsedProgram
    /\ select.where_clause.args = <<NoSuchColumn, Numeric("1")>>
    /\ offset(program) = 3
    /\ program.insns[2].op = "Integer"
    /\ program.constant_insns = {1}

\* every resolved label lies after each instruction that refers to it
ForwardLabels ==
    \A k \in DOMAIN program.label_deps :
        program.labels[program.label_deps[k][2]] # Unresolved
            => program.labels[program.label_deps[k][2]] > program.label_deps[k][1]

\* a step of the running code stops it or moves it to a later offset
VmAdvances ==
    (vm.state = "running" /\ vm' # vm)
        => (vm'.state # "running" \/ vm'.pc > vm.pc)

\* C26: every label the WHERE compiler resolves is resolved to an offset
\* strictly greater than the offset of every instruction that refers to it,
\* so the code of a condition has no backward jump: each step of its
\* execution stops or moves to a later offset, and it leaves the condition's
\* code after finitely many steps.
C26_BranchesAreForward == [](ForwardLabels) /\ [][VmAdvances]_vars

\* (a = 1 OR c > 3) OR c > 3 over the row: the OR's local labels and the
\* true target are resolved and referred to, and the code ran to its end
\* through the forward jump of a = 1
C26_Witness ==
    /\ Compiled /\ result = "Ok"
    /\ IsOr(select.where_clause) /\ IsOr(select.where_clause.args[1])
    /\ select.where_clause.args[1].args[1] = Binary(ColA, "Equals", Numeric("1"))
    /\ Cardinality({ program.label_deps[k][2] : k \in DOMAIN program.label_deps })
           >= 2
    /\ \A l \in 2..Len(program.labels) : program.labels[l] # Unresolved
    /\ Len(program.labels) = 4
    /\ vm.state = "true"

====
